---- MODULE Spec2Model ----
(***************************************************************************)
(* Model of the cache-backed subtree crawler of gg:                        *)
(*   crawl.rs  ensure_subtree_cached and the per-page task,                *)
(*   cache.rs  the URL -> path mapping and write_atomic,                   *)
(*   util.rs   host_variants / strip_fragment,                             *)
(*   app.rs    the option handling of run().                               *)
(*                                                                         *)
(* Rust strings are modelled as sequences of one-character strings, so     *)
(* that starts_with, ends_with, split and trim are computed as the code    *)
(* computes them.  Option<T> is None (the empty tuple) or Some(x) (a       *)
(* one-element tuple); Result<T> is a record tagged "Ok" or "Err".         *)
(***************************************************************************)
EXTENDS Integers, Sequences, FiniteSets, TLC

\* ------------------------------------------------------------------------
\* Bounds of the model
\* ------------------------------------------------------------------------
\* largest --parallelism value below the clamp that Init draws
MaxPar == 2
\* largest --max-depth value Init draws
MaxDepth == 1
\* number of write() calls write_all needs for one Markdown file
Chunks == 1
\* number of environment failures (transport, I/O, panic) per run
MaxFaults == 1

\* ------------------------------------------------------------------------
\* Option and Result
\* ------------------------------------------------------------------------
None == <<>>
Some(x) == <<x>>
IsSome(o) == o # <<>>
Unwrap(o) == o[1]
Ok(v) == [tag |-> "Ok", val |-> v]
Err(e) == [tag |-> "Err", err |-> e]
IsOk(r) == r.tag = "Ok"

\* F applied to the value of x, which is computed once
With(x, F(_)) == CHOOSE r \in {F(v) : v \in {x}} : TRUE

\* ------------------------------------------------------------------------
\* String helpers (str methods used by the code)
\* ------------------------------------------------------------------------
starts_with(s, p) ==
  /\ Len(p) <= Len(s)
  /\ SubSeq(s, 1, Len(p)) = p

ends_with(s, p) ==
  /\ Len(p) <= Len(s)
  /\ SubSeq(s, Len(s) - Len(p) + 1, Len(s)) = p

RECURSIVE trim_end_matches(_, _)
trim_end_matches(s, c) ==
  IF s # <<>> /\ s[Len(s)] = c
    THEN trim_end_matches(SubSeq(s, 1, Len(s) - 1), c)
    ELSE s

RECURSIVE trim_start_matches(_, _)
trim_start_matches(s, c) ==
  IF s # <<>> /\ s[1] = c
    THEN trim_start_matches(Tail(s), c)
    ELSE s

trim_matches(s, c) == trim_end_matches(trim_start_matches(s, c), c)

\* str::split(c): the pieces between the separators, empty pieces included
RECURSIVE split(_, _)
split(s, c) ==
  IF \E i \in 1..Len(s) : s[i] = c
    THEN LET i == CHOOSE j \in 1..Len(s) :
                    s[j] = c /\ \A k \in 1..(j - 1) : s[k] # c
         IN <<SubSeq(s, 1, i - 1)>> \o split(SubSeq(s, i + 1, Len(s)), c)
    ELSE <<s>>

RECURSIVE filter_non_empty(_)
filter_non_empty(ss) ==
  IF ss = <<>> THEN <<>>
  ELSE IF Head(ss) = <<>> THEN filter_non_empty(Tail(ss))
  ELSE <<Head(ss)>> \o filter_non_empty(Tail(ss))

UpperChars == <<"A","B","C","D","E","F","G","H","I","J","K","L","M",
                "N","O","P","Q","R","S","T","U","V","W","X","Y","Z">>
LowerChars == <<"a","b","c","d","e","f","g","h","i","j","k","l","m",
                "n","o","p","q","r","s","t","u","v","w","x","y","z">>
DigitChars == <<"0","1","2","3","4","5","6","7","8","9">>

Range(f) == {f[i] : i \in DOMAIN f}

to_ascii_lowercase_char(c) ==
  IF c \in Range(UpperChars)
    THEN LowerChars[CHOOSE i \in 1..26 : UpperChars[i] = c]
    ELSE c

to_ascii_lowercase(s) == [i \in 1..Len(s) |-> to_ascii_lowercase_char(s[i])]

RECURSIVE Concat(_)
Concat(ss) == IF ss = <<>> THEN <<>> ELSE Head(ss) \o Concat(Tail(ss))

\* ------------------------------------------------------------------------
\* URLs (url::Url after parsing: host already lowercased, path starts
\* with '/')
\* ------------------------------------------------------------------------
MkUrl(scheme, host, path, fragment) ==
  [scheme |-> scheme, host |-> Some(host), port |-> None, path |-> path,
   query |-> None, fragment |-> fragment]

\* Url::as_str: the serialization scheme://host[:port]path[?query][#fragment]
as_str(u) ==
  u.scheme \o <<":">>
    \o (IF IsSome(u.host) THEN <<"/", "/">> \o Unwrap(u.host) ELSE <<>>)
    \o (IF IsSome(u.port) THEN <<":">> \o Unwrap(u.port) ELSE <<>>)
    \o u.path
    \o (IF IsSome(u.query) THEN <<"?">> \o Unwrap(u.query) ELSE <<>>)
    \o (IF IsSome(u.fragment) THEN <<"#">> \o Unwrap(u.fragment) ELSE <<>>)

strip_fragment(url) == [url EXCEPT !.fragment = None]

\* util.rs host_variants: h and its www. counterpart
host_variants(host) ==
  LET h == to_ascii_lowercase(host)
      www == <<"w", "w", "w", ".">>
  IN IF starts_with(h, www)
       THEN <<h, SubSeq(h, Len(www) + 1, Len(h))>>
       ELSE <<h, www \o h>>

canonical_key(url) == as_str([url EXCEPT !.fragment = None])

path_prefix(root) ==
  IF ends_with(root.path, <<"/">>) THEN root.path ELSE Append(root.path, "/")

\* is_allowed_child comparing against the prefix without its slash
is_allowed_child_loose(url, hosts, pre) ==
  IF ~IsSome(url.host) THEN FALSE
  ELSE
    /\ to_ascii_lowercase(Unwrap(url.host)) \in hosts
    /\ \/ pre = <<"/">>
       \/ starts_with(url.path, trim_end_matches(pre, "/"))

is_allowed_child(url, hosts, pre) ==
  IF ~IsSome(url.host) THEN FALSE
  ELSE
    LET host == to_ascii_lowercase(Unwrap(url.host))
        prefix_no_slash == trim_end_matches(pre, "/")
    IN /\ host \in hosts
       /\ \/ pre = <<"/">>
          \/ url.path = prefix_no_slash
          \/ starts_with(url.path, pre)

\* ------------------------------------------------------------------------
\* cache.rs: URL -> path mapping.  A path is the sequence of its components
\* below the cache root.
\* ------------------------------------------------------------------------
HexDigits == <<"0","1","2","3","4","5","6","7","8","9","A","B","C","D","E","F">>

\* ASCII codes of the characters outside [A-Za-z0-9._-] that occur in the
\* model's URLs
AsciiCode(c) ==
  CASE c = " " -> 32
    [] c = "%" -> 37
    [] c = "+" -> 43
    [] c = ":" -> 58
    [] c = "=" -> 61
    [] c = "@" -> 64
    [] c = "~" -> 126
    [] OTHER -> 63

sanitize_component(s) ==
  LET enc(b) ==
        IF \/ b \in Range(LowerChars)
           \/ b \in Range(UpperChars)
           \/ b \in Range(DigitChars)
           \/ b \in {"-", "_", "."}
          THEN <<b>>
          ELSE <<"%", HexDigits[(AsciiCode(b) \div 16) + 1],
                 HexDigits[(AsciiCode(b) % 16) + 1]>>
  IN Concat([i \in 1..Len(s) |-> enc(s[i])])

HtmlExts == << <<".","h","t","m","l">>, <<".","h","t","m">>,
               <<".","x","h","t","m","l">> >>

strip_html_ext_same_case(s) ==
  LET hits == {i \in 1..Len(HtmlExts) : ends_with(s, HtmlExts[i])}
  IN IF hits = {} THEN s
     ELSE LET i == CHOOSE j \in hits : \A k \in hits : j <= k
          IN SubSeq(s, 1, Len(s) - Len(HtmlExts[i]))

strip_html_ext(s) ==
  LET hits == {i \in 1..Len(HtmlExts) :
                 ends_with(to_ascii_lowercase(s), HtmlExts[i])}
  IN IF hits = {} THEN s
     ELSE LET i == CHOOSE j \in hits : \A k \in hits : j <= k
          IN SubSeq(s, 1, Len(s) - Len(HtmlExts[i]))

DefaultPort(scheme) ==
  IF scheme = <<"h","t","t","p">> THEN Some(<<"8","0">>)
  ELSE IF scheme = <<"h","t","t","p","s">> THEN Some(<<"4","4","3">>)
  ELSE None

host_port_dirname(url, host) ==
  LET host_l == to_ascii_lowercase(host)
      p_suffix == <<"_","p","o","r","t">>
  IN IF IsSome(url.port) /\ IsSome(DefaultPort(url.scheme))
       THEN IF url.port # DefaultPort(url.scheme)
              THEN host_l \o p_suffix \o Unwrap(url.port)
              ELSE host_l
     ELSE IF IsSome(url.port)
       THEN host_l \o p_suffix \o Unwrap(url.port)
     ELSE host_l

S_sites == <<"s","i","t","e","s">>
S_index_md == <<"i","n","d","e","x",".","m","d">>
S_dot_md == <<".","m","d">>

site_dir(url) ==
  IF ~IsSome(url.host) THEN Err("URL has no host")
  ELSE Ok(<<S_sites, url.scheme, host_port_dirname(url, Unwrap(url.host))>>)

subtree_dir(root) ==
  IF ~IsOk(site_dir(root)) THEN site_dir(root)
  ELSE IF root.path = <<"/">> THEN site_dir(root)
  ELSE LET segs == filter_non_empty(split(trim_matches(root.path, "/"), "/"))
       IN Ok(site_dir(root).val
               \o [i \in 1..Len(segs) |-> sanitize_component(segs[i])])

\* the first 8 hex digits of BLAKE3(query): a table over the queries of the
\* model, one distinct digest per query
blake3_hex8(q) ==
  CASE q = <<"x","=","1">> -> <<"3","a","0","1","9","c","5","e">>
    [] q = <<"x","=","2">> -> <<"b","7","4","4","0","d","2","1">>
    [] OTHER -> <<"0","0","0","0","0","0","0","0">>

page_path(url) ==
  IF ~IsOk(site_dir(url)) THEN site_dir(url)
  ELSE
    LET dir0 == site_dir(url).val
        path == url.path
        segments == filter_non_empty(split(trim_matches(path, "/"), "/"))
        sane == [i \in 1..Len(segments) |-> sanitize_component(segments[i])]
    IN IF path = <<"/">> \/ path = <<>> THEN Ok(Append(dir0, S_index_md))
       ELSE IF ends_with(path, <<"/">>)
         THEN Ok(Append(dir0 \o sane, S_index_md))
       ELSE IF segments = <<>> THEN Ok(Append(dir0, S_index_md))
       ELSE
         LET last == segments[Len(segments)]
             stripped == strip_html_ext(last)
             base == IF stripped = <<>> THEN <<"i","n","d","e","x">>
                     ELSE stripped
             q == IF IsSome(url.query)
                    THEN <<"_","_","q">> \o blake3_hex8(Unwrap(url.query))
                    ELSE <<>>
             filename == sanitize_component(base) \o q \o S_dot_md
         IN Ok(Append(dir0 \o SubSeq(sane, 1, Len(sane) - 1), filename))

manifest_path_for_subtree(root) ==
  IF ~IsOk(subtree_dir(root)) THEN subtree_dir(root)
  ELSE Ok(subtree_dir(root).val
            \o << <<".","g","g">>,
                  <<"m","a","n","i","f","e","s","t",".","j","s","o","n">> >>)

\* the temp file of write_atomic: <parent>/.<file_name>.tmp
tmp_path(path) ==
  SubSeq(path, 1, Len(path) - 1)
    \o << <<".">> \o path[Len(path)] \o <<".","t","m","p">> >>

\* ------------------------------------------------------------------------
\* The environment: one documentation site and the disk left by earlier runs
\* ------------------------------------------------------------------------
S_https == <<"h","t","t","p","s">>
S_http == <<"h","t","t","p">>
S_ftp == <<"f","t","p">>
H_h == <<"h">>
H_ext == <<"e">>

P_d == <<"/","d">>
P_d_slash == <<"/","d","/">>
P_x == <<"/","d","/","x">>
P_y == <<"/","d","/","y">>
P_sib == <<"/","d","x">>
P_f == <<"/","d","/","f">>

U_top == MkUrl(S_https, H_h, <<"/">>, None)
U_dir == MkUrl(S_https, H_h, P_d_slash, None)
U_nodir == MkUrl(S_https, H_h, P_d, None)
U_x == MkUrl(S_https, H_h, P_x, None)
U_x_frag == MkUrl(S_https, H_h, P_x, Some(<<"s">>))
U_y == MkUrl(S_https, H_h, P_y, None)
U_y_frag == MkUrl(S_https, H_h, P_y, Some(<<"s">>))
U_sib == MkUrl(S_https, H_h, P_sib, None)
U_ext == MkUrl(S_https, H_ext, P_x, None)
U_ftp == MkUrl(S_ftp, H_h, P_f, None)

\* every URL of the model, and cache.page_path over them
Urls ==
  {U_top, U_dir, U_nodir, U_x, U_x_frag, U_y, U_y_frag, U_sib, U_ext, U_ftp}
page_path_of == [u \in Urls |-> page_path(u)]

\* the crawl roots the user may name
Roots == {U_top, U_dir, U_nodir}

\* an href of a page, as the converter's link metadata gives it
HrefAbs(u) == [t |-> "abs", url |-> u]
HrefPath(p) == [t |-> "path", path |-> p]
HrefEmpty == [t |-> "empty"]

LinksOfDir ==
  <<HrefAbs(U_x_frag), HrefEmpty, HrefAbs(U_sib), HrefAbs(U_ext),
    HrefAbs(U_ftp), HrefPath(P_x)>>
LinksOfX == <<HrefPath(P_y), HrefAbs(U_ext), HrefPath(P_x)>>

Response(final, status, html, links) ==
  [final_url |-> final, status |-> status, html |-> html, links |-> links]

\* what the server may answer for a requested URL (the fragment is not
\* sent): /d redirects to /d/, which links to /d/x; /d/x is a page linking
\* to /d/y and to itself, or a 404 error page with the same links; /d/y
\* redirects to /d/x, or is a binary file
Serve(url) ==
  LET p == url.path
  IN IF url.host # Some(H_h) THEN {Response(url, 404, FALSE, << >>)}
     ELSE IF p = P_d_slash \/ p = P_d
       THEN {Response(U_dir, 200, TRUE, LinksOfDir)}
     ELSE IF p = P_x
       THEN {Response(U_x, 200, TRUE, LinksOfX),
             Response(U_x, 404, TRUE, LinksOfX)}
     ELSE IF p = P_y
       THEN {Response(U_x, 200, TRUE, LinksOfX),
             Response(U_y, 200, FALSE, << >>)}
     ELSE {Response(strip_fragment(url), 404, TRUE, << >>)}

\* the URLs the site's sitemap lists
SitemapUrls == <<U_y_frag, U_ext>>

\* ------------------------------------------------------------------------
\* File contents.  A Markdown file is written in Chunks pieces; a piece is
\* <<writer, index>>, writer 0 being an earlier run.
\* ------------------------------------------------------------------------
Complete(w) == [i \in 1..Chunks |-> <<w, i>>]
Hole == <<0, 0>>

\* the manifest an earlier crawl of root_str left, with its one page
StoredManifest(root_str) ==
  [version |-> 1, root_url |-> root_str,
   pages |-> << [url |-> as_str(U_x), cache_path |-> page_path(U_x).val,
                 status |-> 200, error |-> None] >>]

\* serde_json: a manifest file holds either a serialized manifest or bytes
\* that do not parse
to_vec_pretty(m) == [json |-> TRUE, manifest |-> m]
Garbage == [json |-> FALSE]
from_slice(bytes) ==
  IF bytes.json THEN Ok(bytes.manifest)
  ELSE Err("failed to parse manifest JSON")

\* read_manifest: fs::read then serde_json::from_slice
read_manifest(file) ==
  IF ~IsSome(file) THEN Err("failed to read manifest")
  ELSE from_slice(Unwrap(file))

\* what an invocation for root r may start from, <<refresh, manifest file>>:
\* no manifest, an unreadable one, the manifest of an earlier crawl of a
\* root with the same manifest path, and a refresh of r's own manifest
Scenarios(r) ==
  {<<FALSE, None>>, <<FALSE, Some(Garbage)>>,
   <<TRUE, Some(to_vec_pretty(StoredManifest(as_str(r))))>>}
    \cup {<<FALSE, Some(to_vec_pretty(StoredManifest(as_str(u))))>> :
            u \in {v \in Roots : manifest_path_for_subtree(v)
                                   = manifest_path_for_subtree(r)}}

\* ------------------------------------------------------------------------
\* State
\* ------------------------------------------------------------------------
VARIABLES
  root,            \* the root URL of the call
  refresh,         \* the refresh flag
  opts,            \* CrawlOptions: parallelism, max_depth, use_sitemap
  pc,              \* position of ensure_subtree_cached
  result,          \* None, or Some(Result<CrawlManifest>) once returned
  seen,            \* HashSet<String> of canonical keys
  queue,           \* VecDeque<(Url, usize)>
  tasks,           \* every task spawned into the JoinSet, by task id
  pages,           \* Vec<PageEntry>
  manifest_file,   \* the file at manifest_path(root), None if missing
  names,           \* directory entries of the cache: path -> inode
  inodes,          \* inode -> content, for the inodes in use
  faults,          \* environment failures so far
  manifest_writes, \* calls of write_manifest so far
  sitemap,         \* what discover_sitemap_urls returned, None before
  calls,           \* calls of ensure_page_cached, oldest first
  arg,             \* input handed to a pure function
  val,             \* value the function returned for arg, None before
  locals           \* local variables of the function that is stepped

auxVars == <<calls, arg, val, locals>>

vars == <<root, refresh, opts, pc, result, seen, queue, tasks, pages,
          manifest_file, names, inodes, faults, manifest_writes,
          sitemap, calls, arg, val, locals>>

\* ------------------------------------------------------------------------
\* app.rs run(): the options of the crawl
\* ------------------------------------------------------------------------
Min(a, b) == IF a < b THEN a ELSE b
Max(a, b) == IF a > b THEN a ELSE b
clamp(x, lo, hi) == Max(lo, Min(x, hi))

\* available_parallelism() of the machine
Cores == 4
default_parallelism == Max(Cores * 8, 16)

\* --parallelism as given on the command line
ParallelismFlags == {Some(n) : n \in 0..MaxPar} \cup {Some(600)}
MaxDepthFlags == {None} \cup {Some(n) : n \in 0..MaxDepth}

run_parallelism(flag) ==
  clamp(IF IsSome(flag) THEN Unwrap(flag) ELSE default_parallelism, 1, 512)

Init ==
  /\ root \in Roots
  /\ \E sc \in Scenarios(root) :
       /\ refresh = sc[1]
       /\ manifest_file = sc[2]
       /\ IF IsSome(sc[2]) /\ Unwrap(sc[2]).json
            THEN /\ names = (page_path(U_x).val :> 0)
                 /\ inodes = (0 :> Complete(0))
            ELSE /\ names = << >>
                 /\ inodes = << >>
  /\ \E pf \in ParallelismFlags, md \in MaxDepthFlags, sm \in BOOLEAN :
       opts = [parallelism |-> run_parallelism(pf), max_depth |-> md,
               use_sitemap |-> sm]
  /\ pc = "entry"
  /\ result = None
  /\ seen = {}
  /\ queue = << >>
  /\ tasks = << >>
  /\ pages = << >>
  /\ faults = 0
  /\ manifest_writes = 0
  /\ sitemap = None
  /\ calls = << >>
  /\ arg = None
  /\ val = None
  /\ locals = None

\* ------------------------------------------------------------------------
\* crawl.rs ensure_subtree_cached
\* ------------------------------------------------------------------------
allowed_hosts == Range(host_variants(Unwrap(root.host)))
prefix == path_prefix(root)

\* the manifest short-cut of lines 117-125
manifest_hit ==
  /\ ~refresh
  /\ IsSome(manifest_file)
  /\ IsOk(read_manifest(manifest_file))
  /\ read_manifest(manifest_file).val.root_url = as_str(root)

Entry ==
  /\ pc = "entry"
  /\ IF manifest_hit
       THEN /\ pc' = "returned"
            /\ result' = Some(Ok(read_manifest(manifest_file).val))
       ELSE /\ pc' = "seed"
            /\ result' = result
  /\ UNCHANGED auxVars
  /\ UNCHANGED <<root, refresh, opts, sitemap, seen, queue, tasks, pages,
                 manifest_file, names, inodes, faults, manifest_writes>>

\* enqueue pushing without looking at the result of seen.insert
enqueue_unchecked(sq, u, depth) ==
  [seen |-> sq.seen \cup {canonical_key(u)},
   queue |-> Append(sq.queue, [url |-> u, depth |-> depth])]

\* seen.insert(k) and queue.push_back((u, depth)) for one candidate URL
enqueue(sq, u, depth) ==
  LET k == canonical_key(u)
  IN IF k \notin sq.seen
       THEN [seen |-> sq.seen \cup {k},
             queue |-> Append(sq.queue, [url |-> u, depth |-> depth])]
       ELSE sq

\* the loops of lines 153-160 and 252-260 over a list of URLs
RECURSIVE admit_all(_, _, _)
admit_all(sq, urls, depth) ==
  IF urls = << >> THEN sq
  ELSE admit_all(IF is_allowed_child(Head(urls), allowed_hosts, prefix)
                   THEN enqueue(sq, Head(urls), depth)
                   ELSE sq,
                 Tail(urls), depth)

\* sitemap::discover_sitemap_urls: the listed URLs, or an error
discover_sitemap_urls == {Ok(SitemapUrls), Err("sitemap")}

Seed ==
  /\ pc = "seed"
  /\ \E found \in (IF opts.use_sitemap THEN discover_sitemap_urls
                   ELSE {Err("no sitemap")}) :
       LET seeds == IF IsOk(found) THEN found.val ELSE << >>
           sq0 == [seen |-> {canonical_key(root)},
                   queue |-> <<[url |-> root, depth |-> 0]>>]
           sq == admit_all(sq0, seeds, 0)
       IN /\ seen' = sq.seen
          /\ queue' = sq.queue
          /\ sitemap' = IF opts.use_sitemap THEN Some(found) ELSE None
  /\ pc' = "loop"
  /\ UNCHANGED auxVars
  /\ UNCHANGED <<root, refresh, opts, result, tasks, pages, manifest_file,
                 names, inodes, faults, manifest_writes>>

\* ---- the JoinSet -------------------------------------------------------
Task(url, depth) ==
  [url |-> url, depth |-> depth, st |-> "fetch", pf |-> None,
   path |-> None, fd |-> 0, off |-> 0, res |-> None, joined |-> FALSE]

\* JoinSet::len(): the tasks spawned and not yet handed out by join_next
InFlight == {t \in DOMAIN tasks : ~tasks[t].joined /\ tasks[t].st # "aborted"}
joinset_len == Cardinality(InFlight)

\* the spawn guard admitting one task too many
can_spawn_inclusive == joinset_len <= opts.parallelism /\ queue # << >>


\* the guard of the spawn loop, line 206
can_spawn == joinset_len < opts.parallelism /\ queue # << >>

Spawn ==
  /\ pc = "loop"
  /\ can_spawn
  /\ tasks' = Append(tasks, Task(Head(queue).url, Head(queue).depth))
  /\ queue' = Tail(queue)
  /\ UNCHANGED auxVars
  /\ UNCHANGED <<root, refresh, opts, sitemap, pc, result, seen, pages,
                 manifest_file, names, inodes, faults, manifest_writes>>

\* ---- the page task: fetch_and_convert_page_with_options -----------------
\* resolve_links: absolute hrefs are parsed, others joined to the base; the
\* fragment is stripped and only http(s) links are kept
RECURSIVE resolve_links(_, _)
resolve_links(base, links) ==
  IF links = << >> THEN << >>
  ELSE
    LET l == Head(links)
        rest == resolve_links(base, Tail(links))
        abs == IF l.t = "abs" THEN l.url
               ELSE [base EXCEPT !.path = l.path, !.query = None,
                                 !.fragment = None]
    IN IF l.t = "empty" THEN rest
       ELSE IF strip_fragment(abs).scheme \in {S_http, S_https}
         THEN <<strip_fragment(abs)>> \o rest
       ELSE rest

is_error_status(status) == status >= 400 /\ status <= 599

\* a PageFetch that reports no file for an error status
PageFetch_no_file_on_error(resp, cache_path, links_out, md_err) ==
  [final_url |-> resp.final_url, status |-> resp.status,
   cache_path |-> IF is_error_status(resp.status) THEN None ELSE cache_path,
   links |-> links_out,
   error |-> IF is_error_status(resp.status) THEN Some("HTTP status")
             ELSE md_err]

\* the PageFetch of lines 372-391
PageFetch(resp, cache_path, links_out, md_err) ==
  [final_url |-> resp.final_url, status |-> resp.status,
   cache_path |-> cache_path, links |-> links_out,
   error |-> IF is_error_status(resp.status)
               THEN IF IsSome(md_err)
                      THEN Some("HTTP status; markdown conversion failed")
                      ELSE Some("HTTP status")
               ELSE md_err]

\* the PageFetch of lines 303-314
NonHtmlFetch(resp) ==
  [final_url |-> resp.final_url, status |-> resp.status,
   cache_path |-> None, links |-> << >>,
   error |-> Some("non-HTML content")]

Finished(t, r) == [tasks EXCEPT ![t].st = "done", ![t].res = Some(r)]
CanFail == faults < MaxFaults

\* fetch_limited fails: transport error or body over max_body_bytes
TaskFetchErr(t) ==
  /\ pc = "loop"
  /\ tasks[t].st = "fetch"
  /\ CanFail
  /\ tasks' = Finished(t, Err("fetch_limited failed"))
  /\ faults' = faults + 1
  /\ UNCHANGED auxVars
  /\ UNCHANGED <<root, refresh, opts, sitemap, pc, result, seen, queue, pages,
                 manifest_file, names, inodes, manifest_writes>>

\* the task panics (in the converter)
TaskPanic(t) ==
  /\ pc = "loop"
  /\ tasks[t].st = "fetch"
  /\ CanFail
  /\ tasks' = [tasks EXCEPT ![t].st = "panicked"]
  /\ faults' = faults + 1
  /\ UNCHANGED auxVars
  /\ UNCHANGED <<root, refresh, opts, sitemap, pc, result, seen, queue, pages,
                 manifest_file, names, inodes, manifest_writes>>

\* convert_with_metadata or convert_with_code_visitor fails (lines 331-342):
\* no Markdown; the links are kept when only the second conversion failed
TaskConvertErr(t) ==
  /\ pc = "loop"
  /\ tasks[t].st = "fetch"
  /\ CanFail
  /\ \E resp \in Serve(tasks[t].url), meta_ok \in BOOLEAN :
       /\ resp.html
       /\ tasks' = Finished(t, Ok(PageFetch(resp, None,
              IF meta_ok THEN resolve_links(resp.final_url, resp.links)
              ELSE << >>,
              Some("markdown conversion failed"))))
  /\ faults' = faults + 1
  /\ UNCHANGED auxVars
  /\ UNCHANGED <<root, refresh, opts, sitemap, pc, result, seen, queue, pages,
                 manifest_file, names, inodes, manifest_writes>>

\* ---- cache.rs write_atomic, one system call at a time -------------------
\* the inodes still named or held open by a writer
gc(nm, tk, ino) ==
  LET live == Range(nm) \cup {tk[t].fd : t \in {u \in DOMAIN tk :
                                                 tk[u].st = "write"}}
  IN [i \in DOMAIN ino \cap live |-> ino[i]]

\* create_tmp opening the final path itself
create_in_place(t, path) ==
  IF path \in DOMAIN names
    THEN [fd |-> names[path], names |-> names,
          inodes |-> [inodes EXCEPT ![names[path]] = << >>]]
    ELSE [fd |-> t, names |-> names @@ (path :> t),
          inodes |-> inodes @@ (t :> << >>)]

\* fs::create_dir_all and File::create(tmp_path) by task t: O_CREAT | O_TRUNC.
\* A new inode is numbered after the task that creates it.
create_tmp(t, path) ==
  LET tmp == tmp_path(path)
  IN IF tmp \in DOMAIN names
       THEN [fd |-> names[tmp], names |-> names,
             inodes |-> [inodes EXCEPT ![names[tmp]] = << >>]]
       ELSE [fd |-> t, names |-> names @@ (tmp :> t),
             inodes |-> inodes @@ (t :> << >>)]

\* The response arrives and is converted (lines 294-348); a page that is
\* not HTML ends the task, an HTML page goes on to page_path and
\* write_atomic.  The task runs without an await from the end of the body
\* to its first system call, so the step ends after File::create.
TaskFetch(t) ==
  /\ pc = "loop"
  /\ tasks[t].st = "fetch"
  /\ \E resp \in Serve(tasks[t].url) :
       IF ~resp.html
         THEN /\ tasks' = Finished(t, Ok(NonHtmlFetch(resp)))
              /\ UNCHANGED <<names, inodes>>
       ELSE IF ~IsOk(page_path_of[resp.final_url])
         THEN /\ tasks' = Finished(t, Err(page_path_of[resp.final_url].err))
              /\ UNCHANGED <<names, inodes>>
       ELSE
         LET path == page_path_of[resp.final_url].val
             c == create_tmp(t, path)
         IN /\ tasks' = [tasks EXCEPT
                           ![t].st = "write",
                           ![t].path = Some(path),
                           ![t].fd = c.fd,
                           ![t].pf = Some(PageFetch(resp, Some(path),
                               resolve_links(resp.final_url, resp.links),
                               None))]
            /\ names' = c.names
            /\ inodes' = c.inodes
  /\ UNCHANGED auxVars
  /\ UNCHANGED <<root, refresh, opts, sitemap, pc, result, seen, queue, pages,
                 manifest_file, faults, manifest_writes>>

\* the content after a write of piece c at offset i - 1
put(content, i, c) ==
  [j \in 1..Max(Len(content), i) |->
     IF j = i THEN c
     ELSE IF j <= Len(content) THEN content[j]
     ELSE Hole]

\* one write() of write_all; the file is flushed and closed after the last
WriteChunk(t) ==
  /\ tasks[t].st = "write"
  /\ LET i == tasks[t].off + 1
         tk == [tasks EXCEPT
                  ![t].off = i,
                  ![t].st = IF i = Chunks THEN "rename" ELSE "write"]
     IN /\ tasks' = tk
        /\ inodes' = gc(names, tk,
                        [inodes EXCEPT ![tasks[t].fd] = put(@, i, <<t, i>>)])
  /\ UNCHANGED auxVars
  /\ UNCHANGED <<root, refresh, opts, sitemap, pc, result, seen, queue, pages,
                 manifest_file, names, faults, manifest_writes>>

\* names after rename(from, to)
renamed(from, to) ==
  [q \in (DOMAIN names \ {from}) \cup {to} |->
     IF q = to THEN names[from] ELSE names[q]]

\* fs::rename(tmp_path, path): fails when the temp name is gone
WriteRename(t) ==
  /\ tasks[t].st = "rename"
  /\ LET path == Unwrap(tasks[t].path)
         tmp == tmp_path(path)
     IN IF tmp \in DOMAIN names
          THEN /\ names' = renamed(tmp, path)
               /\ tasks' = Finished(t, Ok(Unwrap(tasks[t].pf)))
               /\ inodes' = gc(renamed(tmp, path), tasks, inodes)
          ELSE /\ names' = names
               /\ tasks' = Finished(t, Err("failed to replace: ENOENT"))
               /\ inodes' = inodes
  /\ UNCHANGED auxVars
  /\ UNCHANGED <<root, refresh, opts, sitemap, pc, result, seen, queue, pages,
                 manifest_file, faults, manifest_writes>>

\* an I/O error in write_all or rename: the temp file is left behind
WriteIoErr(t) ==
  /\ tasks[t].st \in {"write", "rename"}
  /\ CanFail
  /\ tasks' = Finished(t, Err("cache write failed"))
  /\ inodes' = gc(names, Finished(t, Err("cache write failed")), inodes)
  /\ faults' = faults + 1
  /\ UNCHANGED auxVars
  /\ UNCHANGED <<root, refresh, opts, sitemap, pc, result, seen, queue, pages,
                 manifest_file, names, manifest_writes>>

\* ---- join_next and the end of the crawl --------------------------------
\* returning drops the JoinSet: tasks waiting at an await point are aborted
dropped ==
  [t \in DOMAIN tasks |->
     IF ~tasks[t].joined /\ tasks[t].st \in {"fetch", "done", "panicked"}
       THEN [tasks[t] EXCEPT !.st = "aborted"]
       ELSE tasks[t]]

PageEntry(pf) ==
  [url |-> as_str(pf.final_url), cache_path |-> Unwrap(pf.cache_path),
   status |-> pf.status, error |-> pf.error]

\* the outcome join_next hands to line 229: Err for a panicked task
join_result(t) ==
  IF tasks[t].st = "panicked" THEN Err("crawl task panicked")
  ELSE Unwrap(tasks[t].res)

\* the depth test comparing the depth of the page, not of its links
beyond_max_depth_of_page(next_depth) ==
  /\ IsSome(opts.max_depth)
  /\ next_depth - 1 > Unwrap(opts.max_depth)

\* lines 246-250: the links of the page are beyond max_depth
beyond_max_depth(next_depth) ==
  /\ IsSome(opts.max_depth)
  /\ next_depth > Unwrap(opts.max_depth)

Join ==
  /\ pc = "loop"
  /\ ~can_spawn
  /\ \E t \in InFlight :
       /\ tasks[t].st \in {"done", "panicked"}
       /\ LET r == join_result(t)
              joined == [tasks EXCEPT ![t].joined = TRUE]
          IN IF ~IsOk(r)
               THEN /\ pc' = "returned"
                    /\ result' = Some(r)
                    /\ tasks' = [u \in DOMAIN tasks |->
                                   IF u = t THEN joined[t] ELSE dropped[u]]
                    /\ UNCHANGED <<seen, queue, pages>>
               ELSE
                 LET pf == r.val
                     next_depth == tasks[t].depth + 1
                     sq == IF beyond_max_depth(next_depth)
                             THEN [seen |-> seen, queue |-> queue]
                             ELSE admit_all([seen |-> seen, queue |-> queue],
                                            pf.links, next_depth)
                 IN /\ pages' = IF IsSome(pf.cache_path)
                                  THEN Append(pages, PageEntry(pf))
                                  ELSE pages
                    /\ seen' = sq.seen
                    /\ queue' = sq.queue
                    /\ tasks' = joined
                    /\ UNCHANGED <<pc, result>>
  /\ UNCHANGED auxVars
  /\ UNCHANGED <<root, refresh, opts, sitemap, manifest_file, names, inodes,
                 faults, manifest_writes>>


\* the loop condition of line 205
loop_done == queue = << >> /\ joinset_len = 0

CrawlManifest == [version |-> 1, root_url |-> as_str(root), pages |-> pages]

\* write_manifest succeeds and the manifest is returned
Finish ==
  /\ pc = "loop"
  /\ loop_done
  /\ manifest_file' = Some(to_vec_pretty(CrawlManifest))
  /\ manifest_writes' = manifest_writes + 1
  /\ pc' = "returned"
  /\ result' = Some(Ok(CrawlManifest))
  /\ UNCHANGED auxVars
  /\ UNCHANGED <<root, refresh, opts, sitemap, seen, queue, tasks, pages, names,
                 inodes, faults>>

\* fs::write fails: before the file is created, or after it was truncated
FinishIoErr ==
  /\ pc = "loop"
  /\ loop_done
  /\ CanFail
  /\ \E truncated \in BOOLEAN :
       manifest_file' = IF truncated THEN Some(Garbage) ELSE manifest_file
  /\ manifest_writes' = manifest_writes + 1
  /\ faults' = faults + 1
  /\ pc' = "returned"
  /\ result' = Some(Err("failed to write manifest"))
  /\ UNCHANGED auxVars
  /\ UNCHANGED <<root, refresh, opts, sitemap, seen, queue, tasks, pages, names,
                 inodes>>

Next ==
  \/ Entry
  \/ Seed
  \/ Spawn
  \/ Join
  \/ Finish
  \/ FinishIoErr
  \/ \E t \in DOMAIN tasks : TaskFetch(t)
  \/ \E t \in DOMAIN tasks : TaskFetchErr(t)
  \/ \E t \in DOMAIN tasks : TaskPanic(t)
  \/ \E t \in DOMAIN tasks : TaskConvertErr(t)
  \/ \E t \in DOMAIN tasks : WriteChunk(t)
  \/ \E t \in DOMAIN tasks : WriteRename(t)
  \/ \E t \in DOMAIN tasks : WriteIoErr(t)

Spec == Init /\ [][Next]_vars

\* The crawl under the scheduling of the runtime: the engine runs whenever
\* it can, and a task that can go on (its response arrives, its system call
\* returns) eventually does.  The invocations are those of --refresh.
EngineStep == Entry \/ Seed \/ Spawn \/ Join \/ Finish
TaskProgress ==
  \E t \in DOMAIN tasks : TaskFetch(t) \/ WriteChunk(t) \/ WriteRename(t)
LiveInit == Init /\ refresh
FairSpec ==
  /\ LiveInit
  /\ [][Next]_vars
  /\ WF_vars(EngineStep)
  /\ WF_vars(TaskProgress)

\* ------------------------------------------------------------------------
\* crawl.rs ensure_page_cached: single pages asked for one after the other
\* ------------------------------------------------------------------------
MaxCalls == 2

crawlVars == <<root, refresh, opts, pc, result, seen, queue, tasks, pages,
               manifest_file, manifest_writes, sitemap>>

\* the URLs a caller asks for
PageUrls == {U_dir, U_nodir, U_x, U_x_frag, U_y, U_sib}

\* no crawl runs
NoCrawl ==
  /\ root = U_dir
  /\ refresh = FALSE
  /\ opts = [parallelism |-> 1, max_depth |-> 0, use_sitemap |-> FALSE]
  /\ pc = "none"
  /\ result = None
  /\ seen = {}
  /\ queue = << >>
  /\ tasks = << >>
  /\ pages = << >>
  /\ manifest_file = None
  /\ manifest_writes = 0
  /\ sitemap = None

\* the cache is empty or holds /d/x from an earlier run
PageInit ==
  /\ NoCrawl
  /\ \/ names = << >> /\ inodes = << >>
     \/ names = (page_path_of[U_x].val :> 0) /\ inodes = (0 :> Complete(0))
  /\ faults = 0
  /\ calls = << >>
  /\ arg = None
  /\ val = None
  /\ locals = None

is_cached_file(path) == path \in DOMAIN names

\* one finished call: what was asked, the requests it sent, the error the
\* pipeline recorded in its PageFetch, and what the call returned
Call(url, rf, requests, error, res) ==
  [url |-> url, refresh |-> rf, requests |-> requests, error |-> error,
   result |-> res]

can_call == Len(calls) < MaxCalls

\* lines 92-95: the file of the requested URL is there and refresh is off
PageCached ==
  /\ can_call
  /\ \E url \in PageUrls :
       LET path == page_path_of[url]
       IN /\ IsOk(path)
          /\ is_cached_file(path.val)
          /\ calls' = Append(calls, Call(url, FALSE, 0, None, Ok(path.val)))
  /\ UNCHANGED <<names, inodes, faults, arg, val, locals>>
  /\ UNCHANGED crawlVars

\* lines 97-105 on the PageFetch the pipeline returned
page_result(url, pf) ==
  IF IsSome(pf.cache_path) THEN Ok(Unwrap(pf.cache_path))
  ELSE Err("failed to cache page as markdown")

goes_to_pipeline(url, rf) ==
  /\ IsOk(page_path_of[url])
  /\ rf \/ ~is_cached_file(page_path_of[url].val)

\* the pipeline answers (lines 294-391, extract_links = false): a page that
\* is not HTML is not written; an HTML page is converted and written under
\* the path of its final URL by write_atomic, whatever its status
PageFetched ==
  /\ can_call
  /\ \E url \in PageUrls, rf \in BOOLEAN :
       /\ goes_to_pipeline(url, rf)
       /\ \E resp \in Serve(url) :
            LET k == Len(calls) + 1
                fpath == page_path_of[resp.final_url]
            IN IF ~resp.html
                 THEN /\ calls' = Append(calls,
                           Call(url, rf, 1, NonHtmlFetch(resp).error,
                                page_result(url, NonHtmlFetch(resp))))
                      /\ UNCHANGED <<names, inodes>>
               ELSE IF ~IsOk(fpath)
                 THEN /\ calls' = Append(calls,
                           Call(url, rf, 1, None, Err(fpath.err)))
                      /\ UNCHANGED <<names, inodes>>
               ELSE
                 LET pf == PageFetch(resp, Some(fpath.val), << >>, None)
                     nm == [q \in DOMAIN names \cup {fpath.val} |->
                              IF q = fpath.val THEN k ELSE names[q]]
                 IN /\ calls' = Append(calls,
                         Call(url, rf, 1, pf.error, page_result(url, pf)))
                    /\ names' = nm
                    /\ inodes' = gc(nm, tasks, inodes @@ (k :> Complete(k)))
  /\ UNCHANGED <<faults, arg, val, locals>>
  /\ UNCHANGED crawlVars

\* line 294: fetch_limited fails and ? returns its error
PageFetchErr ==
  /\ can_call
  /\ CanFail
  /\ \E url \in PageUrls, rf \in BOOLEAN :
       /\ goes_to_pipeline(url, rf)
       /\ calls' = Append(calls,
            Call(url, rf, 1, None, Err("fetch_limited failed")))
  /\ faults' = faults + 1
  /\ UNCHANGED <<names, inodes, arg, val, locals>>
  /\ UNCHANGED crawlVars

\* lines 344-347: the conversion fails, the PageFetch has no cache_path
PageConvertErr ==
  /\ can_call
  /\ CanFail
  /\ \E url \in PageUrls, rf \in BOOLEAN :
       /\ goes_to_pipeline(url, rf)
       /\ \E resp \in Serve(url) :
            /\ resp.html
            /\ LET pf == PageFetch(resp, None, << >>,
                                   Some("markdown conversion failed"))
               IN calls' = Append(calls,
                    Call(url, rf, 1, pf.error, page_result(url, pf)))
  /\ faults' = faults + 1
  /\ UNCHANGED <<names, inodes, arg, val, locals>>
  /\ UNCHANGED crawlVars

\* line 361: write_atomic fails and ? returns its error; the temporary
\* file is left behind when the failure came after File::create
PageWriteErr ==
  /\ can_call
  /\ CanFail
  /\ \E url \in PageUrls, rf \in BOOLEAN :
       /\ goes_to_pipeline(url, rf)
       /\ \E resp \in Serve(url), left \in BOOLEAN :
            LET k == Len(calls) + 1
                fpath == page_path_of[resp.final_url]
            IN /\ resp.html
               /\ IsOk(fpath)
               /\ calls' = Append(calls,
                    Call(url, rf, 1, None, Err("cache write failed")))
               /\ IF left
                    THEN LET nm == [q \in DOMAIN names
                                        \cup {tmp_path(fpath.val)} |->
                                      IF q = tmp_path(fpath.val) THEN k
                                      ELSE names[q]]
                         IN /\ names' = nm
                            /\ inodes' = gc(nm, tasks,
                                            inodes @@ (k :> << >>))
                    ELSE UNCHANGED <<names, inodes>>
  /\ faults' = faults + 1
  /\ UNCHANGED <<arg, val, locals>>
  /\ UNCHANGED crawlVars

PageNext ==
  \/ PageCached
  \/ PageFetched
  \/ PageFetchErr
  \/ PageConvertErr
  \/ PageWriteErr

PageSpec == PageInit /\ [][PageNext]_vars

\* ------------------------------------------------------------------------
\* Pure functions: the input is drawn at the start, one step applies the
\* function.  Nothing else runs.
\* ------------------------------------------------------------------------
Quiet ==
  /\ NoCrawl
  /\ names = << >>
  /\ inodes = << >>
  /\ faults = 0
  /\ calls = << >>
  /\ locals = None

quietVars == <<root, refresh, opts, pc, result, seen, queue, tasks, pages,
               manifest_file, manifest_writes, names, inodes, faults,
               sitemap, calls, locals>>

\* ---- cache.rs page_path on two URLs -------------------------------------
P_root == <<"/">>
P_x_html == P_x \o <<".","h","t","m","l">>
P_d_index == P_d_slash \o <<"i","n","d","e","x">>
Q_1 == <<"x","=","1">>
Q_2 == <<"x","=","2">>

PathSchemes == {S_https, S_http}
PathPaths == {P_root, P_d_slash, P_d, P_x, P_x_html, P_d_index}
PathQueries == {None, Some(Q_1), Some(Q_2)}

WithQuery(u, q) == [u EXCEPT !.query = q]

\* fragment-stripped URLs of one host
PathUrls ==
  {WithQuery(MkUrl(sc, H_h, p, None), q) :
     sc \in PathSchemes, p \in PathPaths, q \in PathQueries}

PathInit ==
  /\ Quiet
  /\ arg \in PathUrls \X PathUrls
  /\ val = None

ApplyPagePath ==
  /\ val = None
  /\ arg \in PathUrls \X PathUrls
  /\ val' = Some(<<page_path(arg[1]), page_path(arg[2])>>)
  /\ UNCHANGED arg
  /\ UNCHANGED quietVars

PathSpec == PathInit /\ [][ApplyPagePath]_vars

\* ---- cache.rs page_path on one URL --------------------------------------
MappingPaths ==
  {<<"/">>,
   <<"/","d","/">>,
   <<"/","d","/","x">>,
   <<"/","d","/","x",".","h","t","m","l">>,
   <<"/","d","/","x",".","H","T","M">>,
   <<"/","d","/","x",".","x","h","t","m","l">>,
   <<"/","d","/",".","h","t","m","l">>,
   <<"/","a","+","b","/","x">>,
   <<"/","/","d","/","/","x">>}
MappingPorts == {None, Some(<<"8","0","8","0">>)}

MappingUrls ==
  {[scheme |-> sc, host |-> Some(H_h), port |-> pt, path |-> p, query |-> q,
    fragment |-> None] :
     sc \in PathSchemes, pt \in MappingPorts, p \in MappingPaths,
     q \in {None, Some(Q_1)}}

MappingInit ==
  /\ Quiet
  /\ arg \in MappingUrls
  /\ val = None

ApplyMapping ==
  /\ val = None
  /\ arg \in MappingUrls
  /\ val' = Some(page_path(arg))
  /\ UNCHANGED arg
  /\ UNCHANGED quietVars

MappingSpec == MappingInit /\ [][ApplyMapping]_vars

\* ---- urlspec.rs: glob patterns over URLs --------------------------------
\* str::find and str::rfind of one character: Some(index) or None
find(s, c) ==
  IF \E i \in 1..Len(s) : s[i] = c
    THEN Some(CHOOSE i \in 1..Len(s) :
                s[i] = c /\ \A k \in 1..(i - 1) : s[k] # c)
    ELSE None

rfind(s, c) ==
  IF \E i \in 1..Len(s) : s[i] = c
    THEN Some(CHOOSE i \in 1..Len(s) :
                s[i] = c /\ \A k \in (i + 1)..Len(s) : s[k] # c)
    ELSE None

GlobChars == {"*", "?", "["}

contains_glob(s) == \E i \in 1..Len(s) : s[i] \in GlobChars

\* the path of a parsed URL: "." segments dropped, ".." segments drop their
\* predecessor, a dot segment at the end leaves an empty last segment
RECURSIVE remove_dot_segments(_, _)
remove_dot_segments(segs, out) ==
  IF segs = << >> THEN out
  ELSE LET h == Head(segs)
           last == Tail(segs) = << >>
           popped == IF out = << >> THEN out
                     ELSE SubSeq(out, 1, Len(out) - 1)
       IN IF h = <<".">>
            THEN remove_dot_segments(Tail(segs),
                                     IF last THEN Append(out, << >>) ELSE out)
          ELSE IF h = <<".", ".">>
            THEN remove_dot_segments(Tail(segs),
                   IF last THEN Append(popped, << >>) ELSE popped)
          ELSE remove_dot_segments(Tail(segs), Append(out, h))

RECURSIVE join_path(_)
join_path(segs) ==
  IF segs = << >> THEN << >>
  ELSE <<"/">> \o Head(segs) \o join_path(Tail(segs))

ForbiddenHostChars ==
  {" ", "#", "%", "/", ":", "<", ">", "?", "@", "[", "\\", "]", "^", "|"}

\* s cut at the first c (cut) or at the last c (rcut): the part before it
\* and, when c occurs, the part after it
cut_at(s, i) ==
  IF i = None THEN [head |-> s, tail |-> None]
  ELSE [head |-> SubSeq(s, 1, Unwrap(i) - 1),
        tail |-> Some(SubSeq(s, Unwrap(i) + 1, Len(s)))]

cut(s, c) == With(find(s, c), LAMBDA i : cut_at(s, i))
rcut(s, c) == With(rfind(s, c), LAMBDA i : cut_at(s, i))

\* the URL of the parts: the host lowercased, a default port dropped, an
\* empty path made "/", dot segments removed
url_of(scheme, host, portstr, rawpath, query, fragment) ==
  IF scheme \notin {S_http, S_https} THEN Err("scheme outside the model")
  ELSE IF host = << >> THEN Err("empty host")
  ELSE IF \E i \in 1..Len(host) : host[i] \in ForbiddenHostChars
    THEN Err("invalid domain character")
  ELSE IF \E i \in 1..Len(portstr) : portstr[i] \notin Range(DigitChars)
    THEN Err("invalid port number")
  ELSE Ok([scheme |-> scheme, host |-> Some(to_ascii_lowercase(host)),
           port |-> IF portstr = << >> \/ Some(portstr) = DefaultPort(scheme)
                      THEN None ELSE Some(portstr),
           path |-> join_path(
                      remove_dot_segments(split(rawpath, "/"), << >>)),
           query |-> query, fragment |-> fragment])

\* Url::parse on an absolute http(s) URL without userinfo and without
\* characters that need percent-encoding: scheme ":" slashes authority
\* path "?" query "#" fragment
Url_parse(s) ==
  With(cut(s, ":"), LAMBDA a :
    IF a.tail = None \/ a.head = << >>
      THEN Err("relative URL without a base")
    ELSE
      With(cut(trim_start_matches(Unwrap(a.tail), "/"), "#"), LAMBDA b :
      With(cut(b.head, "?"), LAMBDA c :
      With(cut(c.head, "/"), LAMBDA d :
      With(rcut(d.head, ":"), LAMBDA e :
        url_of(to_ascii_lowercase(a.head), e.head,
               IF e.tail = None THEN << >> ELSE Unwrap(e.tail),
               IF d.tail = None THEN << >> ELSE Unwrap(d.tail),
               c.tail, b.tail))))))

\* lines 101-121
first_glob(pattern) ==
  CHOOSE i \in 1..Len(pattern) :
    /\ pattern[i] \in GlobChars
    /\ \A k \in 1..(i - 1) : pattern[k] \notin GlobChars

pattern_root(pattern) ==
  IF ~contains_glob(pattern) THEN Err("glob pattern is missing wildcard")
  ELSE
    With(rfind(SubSeq(pattern, 1, first_glob(pattern) - 1), "/"),
         LAMBDA slash_pos :
      IF slash_pos = None
        THEN Err("glob pattern has no '/' before wildcard")
      ELSE
        With(SubSeq(pattern, 1, Unwrap(slash_pos)), LAMBDA cut_str :
        With(Url_parse(IF ends_with(cut_str, <<":", "/", "/">>)
                         THEN pattern ELSE cut_str), LAMBDA parsed :
          IF IsOk(parsed) THEN parsed
          ELSE Err("failed to parse crawl root from pattern"))))

\* The regular expression is kept as the sequence of the pieces that
\* compile_glob_url_regex pushes; its text is their concatenation.
RE_start == <<"^">>
RE_end == <<"$">>
RE_any == <<".", "*">>
RE_seg == <<"[", "^", "/", "]", "*">>
RE_one == <<"[", "^", "/", "]", "{", "1", "}">>

RegexMeta == {".", "+", "(", ")", "|", "^", "$", "{", "}", "\\"}

\* the loop of lines 135-163 from position i on
RECURSIVE glob_pieces_star_any(_, _)
glob_pieces_star_any(pattern, i) ==
  IF i > Len(pattern) THEN << >>
  ELSE
    LET c == pattern[i]
    IN IF c = "*"
         THEN IF i < Len(pattern) /\ pattern[i + 1] = "*"
                THEN <<RE_any>> \o glob_pieces_star_any(pattern, i + 2)
                ELSE <<RE_any>> \o glob_pieces_star_any(pattern, i + 1)
       ELSE IF c = "?"
         THEN <<RE_one>> \o glob_pieces_star_any(pattern, i + 1)
       ELSE IF c = "["
         THEN LET close == {j \in (i + 1)..Len(pattern) : pattern[j] = "]"}
              IN IF close = {} THEN <<SubSeq(pattern, i, Len(pattern))>>
                 ELSE LET j == CHOOSE m \in close : \A n \in close : m <= n
                      IN <<SubSeq(pattern, i, j)>>
                           \o glob_pieces_star_any(pattern, j + 1)
       ELSE IF c \in RegexMeta
         THEN << <<"\\", c>> >> \o glob_pieces_star_any(pattern, i + 1)
       ELSE << <<c>> >> \o glob_pieces_star_any(pattern, i + 1)

RECURSIVE glob_pieces(_, _)
glob_pieces(pattern, i) ==
  IF i > Len(pattern) THEN << >>
  ELSE
    LET c == pattern[i]
    IN IF c = "*"
         THEN IF i < Len(pattern) /\ pattern[i + 1] = "*"
                THEN <<RE_any>> \o glob_pieces(pattern, i + 2)
                ELSE <<RE_seg>> \o glob_pieces(pattern, i + 1)
       ELSE IF c = "?"
         THEN <<RE_one>> \o glob_pieces(pattern, i + 1)
       ELSE IF c = "["
         THEN LET close == {j \in (i + 1)..Len(pattern) : pattern[j] = "]"}
              IN IF close = {} THEN <<SubSeq(pattern, i, Len(pattern))>>
                 ELSE LET j == CHOOSE m \in close : \A n \in close : m <= n
                      IN <<SubSeq(pattern, i, j)>>
                           \o glob_pieces(pattern, j + 1)
       ELSE IF c \in RegexMeta
         THEN << <<"\\", c>> >> \o glob_pieces(pattern, i + 1)
       ELSE << <<c>> >> \o glob_pieces(pattern, i + 1)

\* a copied character class: [ ... ] with something between the brackets
is_class(piece) ==
  Len(piece) > 1 /\ piece[1] = "[" /\ piece \notin {RE_seg, RE_one}
class_closed(piece) ==
  /\ piece[Len(piece)] = "]"
  /\ Len(piece) >= 3
  /\ piece # <<"[", "^", "]">>

\* lines 130-167: Regex::new rejects an unclosed or empty class
compile_glob_url_regex(pattern) ==
  With(<<RE_start>> \o glob_pieces(pattern, 1) \o <<RE_end>>, LAMBDA pieces :
    IF \E i \in 1..Len(pieces) :
         is_class(pieces[i]) /\ ~class_closed(pieces[i])
      THEN Err("failed to compile regex from pattern")
      ELSE Ok(pieces))

class_has(piece, ch) ==
  LET inner == SubSeq(piece, 2, Len(piece) - 1)
  IN IF inner[1] = "^" THEN ch \notin Range(Tail(inner))
     ELSE ch \in Range(inner)

\* the pieces from i on match s from position j on
RECURSIVE re_match(_, _, _, _)
re_match(re, i, s, j) ==
  IF i > Len(re) THEN TRUE
  ELSE
    LET piece == re[i]
        one(ok) ==
          /\ j <= Len(s)
          /\ ok
          /\ \E i2 \in {i + 1}, j2 \in {j + 1} : re_match(re, i2, s, j2)
        rest(k) == \E i2 \in {i + 1} : re_match(re, i2, s, k)
    IN IF piece = RE_start THEN j = 1 /\ rest(j)
       ELSE IF piece = RE_end THEN j = Len(s) + 1 /\ rest(j)
       ELSE IF piece = RE_any THEN \E k \in j..(Len(s) + 1) : rest(k)
       ELSE IF piece = RE_seg
         THEN \E k \in j..(Len(s) + 1) :
                /\ \A l \in j..(k - 1) : s[l] # "/"
                /\ rest(k)
       ELSE IF piece = RE_one THEN one(j <= Len(s) /\ s[j] # "/")
       ELSE IF is_class(piece)
         THEN one(j <= Len(s) /\ class_has(piece, s[j]))
       ELSE IF Len(piece) = 2
         THEN one(j <= Len(s) /\ s[j] = piece[2])
       ELSE one(j <= Len(s) /\ s[j] = piece[1])

\* Regex::is_match: a match starting anywhere in s
is_match(re, s) == \E j \in 1..(Len(s) + 1) : re_match(re, 1, s, j)

\* lines 25-36
UrlPattern_new(pattern) ==
  IF ~contains_glob(pattern) THEN Err("pattern has no glob characters")
  ELSE
    With(pattern_root(pattern), LAMBDA root_url :
      IF ~IsOk(root_url) THEN root_url
      ELSE
        With(compile_glob_url_regex(pattern), LAMBDA regex :
          IF ~IsOk(regex) THEN regex
          ELSE Ok([original |-> pattern, root |-> root_url.val,
                   regex |-> regex.val])))

\* lines 54-59
matches(pat, url) ==
  With(as_str(strip_fragment(url)), LAMBDA u : is_match(pat.regex, u))

\* lines 47-52
matches_url_string(pat, url) ==
  With(Url_parse(url), LAMBDA u :
    IF IsOk(u) THEN matches(pat, u.val) ELSE FALSE)

\* the patterns and the URL strings of the model
PatternHeads ==
  {<<"h","t","t","p","s",":","/","/","h","/","a">>,
   <<"h","t","t","p","s",":","/","/","H","/","a">>,
   <<"h","t","t","p","s",":","/","/","h",":","4","4","3","/","a">>,
   <<"h","t","t","p","s",":","/","/","h","/","a",".","b">>,
   <<"h","t","t","p","s",":","/","/","h","*">>,
   <<"h","t","t","p","s",":","/","/","*",".","h","/","a">>}
PatternTails ==
  {<<"/","*">>,
   <<"/","*","*","/","*">>,
   <<"/","*","*">>,
   <<"/","?">>,
   <<"/","[","x","y","]">>,
   <<"/","*",".","h","t","m","l">>,
   << >>}
UrlHeads ==
  {<<"h","t","t","p","s",":","/","/","h","/","a">>,
   <<"h","t","t","p","s",":","/","/","H","/","a">>,
   <<"h","t","t","p","s",":","/","/","h","x","/","a">>,
   <<"h","t","t","p","s",":","/","/","w",".","h","/","a">>,
   <<"h","t","t","p","s",":","/","/","h","/","a",".","b">>,
   <<"h","t","t","p","s",":","/","/","h","/","a","x","b">>}
UrlTails ==
  {<<"/","x">>,
   <<"/","x","/","y">>,
   <<"/">>,
   <<"/","x",".","h","t","m","l">>,
   <<"/","x","#","f">>,
   <<"/","x","?","q","=","1">>}

Patterns == {h \o t : h \in PatternHeads, t \in PatternTails}
UrlStrings == {h \o t : h \in UrlHeads, t \in UrlTails}

PatternInit ==
  /\ Quiet
  /\ arg \in Patterns \X UrlStrings
  /\ val = None

\* UrlPattern::new(arg[1]) and, when it succeeds, matches_url_string(arg[2])
ApplyPattern ==
  /\ val = None
  /\ arg \in Patterns \X UrlStrings
  /\ val' = Some(With(UrlPattern_new(arg[1]), LAMBDA pat :
                    [new |-> pat,
                     accepts |-> IF IsOk(pat)
                                   THEN matches_url_string(pat.val, arg[2])
                                   ELSE FALSE]))
  /\ UNCHANGED arg
  /\ UNCHANGED quietVars

PatternSpec == PatternInit /\ [][ApplyPattern]_vars

\* ---- crawl.rs sanitize_markdown -----------------------------------------
MaxLines == 4

NL == <<"\n">>
WhiteSpace == {" ", "\t", "\r"}
WordChars == Range(LowerChars) \cup Range(UpperChars) \cup Range(DigitChars)
               \cup {"_"}

RECURSIVE trim_end(_)
trim_end(s) ==
  IF s # << >> /\ s[Len(s)] \in WhiteSpace
    THEN trim_end(SubSeq(s, 1, Len(s) - 1))
    ELSE s

RECURSIVE trim_start(_)
trim_start(s) ==
  IF s # << >> /\ s[1] \in WhiteSpace THEN trim_start(Tail(s)) ELSE s

trim(s) == trim_end(trim_start(s))

\* str::lines: the pieces between line feeds, a carriage return before a
\* line feed dropped, no empty piece after the last line feed
lines(text) ==
  LET parts == split(text, "\n")
      kept == IF parts[Len(parts)] = << >>
                THEN SubSeq(parts, 1, Len(parts) - 1) ELSE parts
  IN [i \in 1..Len(kept) |->
        IF ends_with(kept[i], <<"\r">>)
          THEN SubSeq(kept[i], 1, Len(kept[i]) - 1) ELSE kept[i]]

at(s, i, sub) ==
  i + Len(sub) - 1 <= Len(s) /\ SubSeq(s, i, i + Len(sub) - 1) = sub

contains(s, sub) == \E i \in 1..Len(s) : at(s, i, sub)

\* str::replace: every occurrence, left to right, none overlapping
RECURSIVE replace_from(_, _, _, _)
replace_from(s, i, sub, with) ==
  IF i > Len(s) THEN << >>
  ELSE IF at(s, i, sub)
    THEN with \o replace_from(s, i + Len(sub), sub, with)
  ELSE <<s[i]>> \o replace_from(s, i + 1, sub, with)

replace(s, sub, with) == replace_from(s, 1, sub, with)

eq_ignore_ascii_case(a, b) == to_ascii_lowercase(a) = to_ascii_lowercase(b)

\* the first position from position from on that holds c, 0 when there is none
first_at(s, c, from) ==
  LET hits == {k \in from..Len(s) : s[k] = c}
  IN IF hits = {} THEN 0 ELSE CHOOSE k \in hits : \A m \in hits : k <= m

\* the end of the match of  X\[[^\]]{min,}\]\([^)]+\)  whose bracket opens
\* at position i, 0 when there is none
bracket_paren_end(s, i, min) ==
  IF i > Len(s) \/ s[i] # "[" THEN 0
  ELSE LET j == first_at(s, "]", i + 1)
       IN IF j = 0 \/ j < i + 1 + min \/ j + 1 > Len(s) \/ s[j + 1] # "("
            THEN 0
          ELSE LET k == first_at(s, ")", j + 2)
               IN IF k = 0 \/ k = j + 2 THEN 0 ELSE k

\* image_md_regex  !\[[^\]]*\]\([^)]+\)  : end of the match starting at i
image_md_end(s, i) ==
  IF i <= Len(s) /\ s[i] = "!" THEN bracket_paren_end(s, i + 1, 0) ELSE 0

\* img_tag_regex  (?i)<img[^>]*>  : end of the match starting at i
img_tag_end(s, i) ==
  IF i + 3 <= Len(s)
       /\ to_ascii_lowercase(SubSeq(s, i, i + 3)) = <<"<", "i", "m", "g">>
    THEN first_at(s, ">", i + 4)
    ELSE 0

\* Regex::replace_all(.., ""): leftmost matches, none overlapping
RECURSIVE remove_image_md(_, _)
remove_image_md(s, i) ==
  IF i > Len(s) THEN << >>
  ELSE IF image_md_end(s, i) > 0
    THEN remove_image_md(s, image_md_end(s, i) + 1)
  ELSE <<s[i]>> \o remove_image_md(s, i + 1)

RECURSIVE remove_img_tag(_, _)
remove_img_tag(s, i) ==
  IF i > Len(s) THEN << >>
  ELSE IF img_tag_end(s, i) > 0
    THEN remove_img_tag(s, img_tag_end(s, i) + 1)
  ELSE <<s[i]>> \o remove_img_tag(s, i + 1)

skip_ws(s, i) ==
  LET stops == {k \in i..Len(s) : s[k] \notin WhiteSpace}
  IN IF stops = {} THEN Len(s) + 1
     ELSE CHOOSE k \in stops : \A m \in stops : k <= m

\* footer_heading_regex  (?i)^#{1,6}\s*footer\b
S_footer == <<"f", "o", "o", "t", "e", "r">>
footer_heading_regex(s) ==
  LET hashes == {k \in 1..Len(s) : \A m \in 1..k : s[m] = "#"}
      h == Cardinality(hashes)
      w == skip_ws(s, h + 1)
  IN /\ h >= 1
     /\ h <= 6
     /\ w + 5 <= Len(s)
     /\ to_ascii_lowercase(SubSeq(s, w, w + 5)) = S_footer
     /\ (w + 6 > Len(s) \/ s[w + 6] \notin WordChars)

\* link_only_line_regex  ^\s*(\[[^\]]+\]\([^)]+\)\s*)+$
RECURSIVE links_to_end(_, _, _)
links_to_end(s, i, any) ==
  IF i > Len(s) THEN any
  ELSE LET e == bracket_paren_end(s, i, 1)
       IN IF e = 0 THEN FALSE ELSE links_to_end(s, skip_ws(s, e + 1), TRUE)

link_only_line_regex(s) == links_to_end(s, skip_ws(s, 1), FALSE)

\* junk_only_line_regex  ^[\[\]\(\)\{\}\|\\/\-_.*\s]+$  (ASCII part)
JunkChars ==
  {"[", "]", "(", ")", "{", "}", "|", "\\", "/", "-", "_", ".", "*"}
junk_only_line_regex(s) ==
  s # << >> /\ \A i \in 1..Len(s) : s[i] \in JunkChars \cup WhiteSpace

\* copyright_line_regex  (?i)^(\(c\))\s+.*\b(19|20)\d{2}\b.*$  (ASCII part)
copyright_line_regex(s) ==
  /\ at(to_ascii_lowercase(s), 1, <<"(", "c", ")">>)
  /\ Len(s) >= 4
  /\ s[4] \in WhiteSpace
  /\ \E q \in 5..Len(s) :
       /\ q + 3 <= Len(s)
       /\ at(s, q, <<"1", "9">>) \/ at(s, q, <<"2", "0">>)
       /\ s[q + 2] \in Range(DigitChars)
       /\ s[q + 3] \in Range(DigitChars)
       /\ s[q - 1] \notin WordChars
       /\ (q + 4 > Len(s) \/ s[q + 4] \notin WordChars)

\* the grave accent U+0060, which a string of the language cannot hold
Tick == "grave"
S_fence_tick == <<Tick, Tick, Tick>>
S_fence_tilde == <<"~", "~", "~">>
S_rule_dash == <<"-", "-", "-">>
HorizontalRules == {S_rule_dash, <<"*", "*", "*">>, <<"_", "_", "_">>}
CopyWords == {<<"c", "o", "p", "y">>,
              <<"c", "o", "p", "y", " ", "p", "a", "g", "e">>,
              <<"c", "o", "p", "i", "e", "d">>}
S_svg_open == <<"<", "s", "v", "g">>
S_svg_close == <<"<", "/", "s", "v", "g", ">">>
S_svg_image == <<"[", "S", "V", "G", " ", "I", "m", "a", "g", "e", "]">>

is_fence(trimmed) ==
  starts_with(trimmed, S_fence_tick) \/ starts_with(trimmed, S_fence_tilde)

\* the variables of sanitize_markdown before the first line
SanitizeStart ==
  [out |-> << >>, in_code |-> FALSE, in_svg |-> FALSE, prev_blank |-> FALSE,
   skipping_frontmatter |-> FALSE, frontmatter_checked |-> FALSE,
   in_footer |-> FALSE, saw_content |-> FALSE, saw_heading |-> FALSE,
   in_trailing_links |-> FALSE]

\* lines 558-569: a blank line is written unless one was just written
emit(st, cleaned) ==
  IF trim(cleaned) = << >>
    THEN IF ~st.prev_blank
           THEN [st EXCEPT !.out = @ \o NL, !.prev_blank = TRUE]
           ELSE st
    ELSE [st EXCEPT !.prev_blank = FALSE, !.saw_content = TRUE,
                    !.out = @ \o trim_end(cleaned) \o NL]

\* lines 516-556: a line outside code after the images were removed
clean_text(st, cleaned) ==
  LET t == trim(cleaned)
      lo == link_only_line_regex(t)
      hash == starts_with(t, <<"#">>)
  IN IF ~st.saw_heading /\ lo THEN st
     ELSE IF st.in_trailing_links /\ ~hash /\ (lo \/ t = << >>) THEN st
     ELSE
       LET st2 == [st EXCEPT !.in_trailing_links = FALSE]
       IN IF lo THEN [st2 EXCEPT !.in_trailing_links = TRUE]
          ELSE IF \/ copyright_line_regex(t)
                  \/ junk_only_line_regex(t)
                  \/ t \in HorizontalRules
                  \/ \E w \in CopyWords : eq_ignore_ascii_case(t, w)
            THEN st2
          ELSE IF contains(t, S_svg_image)
            THEN LET c2 == replace(cleaned, S_svg_image, << >>)
                 IN IF trim(c2) = << >> THEN st2 ELSE emit(st2, c2)
          ELSE emit(st2, cleaned)

\* lines 501-514: leading rules and blank lines, then the image removal
clean_line(st, line, trimmed) ==
  IF ~st.in_code /\ ~st.saw_content
       /\ (trimmed \in HorizontalRules \/ trimmed = << >>)
    THEN st
  ELSE IF st.in_code THEN emit(st, line)
  ELSE clean_text(st, remove_img_tag(remove_image_md(line, 1), 1))

\* lines 479-499: footer sections and headings
footer_step(st, line, trimmed) ==
  IF ~st.in_code
       /\ (footer_heading_regex(trimmed) \/ footer_heading_regex(line))
    THEN [st EXCEPT !.in_footer = TRUE]
  ELSE IF st.in_footer /\ ~starts_with(trimmed, <<"#">>) THEN st
  ELSE clean_line(
         [st EXCEPT !.in_footer = FALSE,
                    !.saw_heading =
                       @ \/ (~st.in_code /\ starts_with(trimmed, <<"#">>))],
         line, trimmed)

\* lines 467-477: svg elements outside code
svg_step(st, line, trimmed) ==
  LET svg == st.in_svg \/ (~st.in_code /\ contains(trimmed, S_svg_open))
  IN IF ~st.in_code /\ svg
       THEN [st EXCEPT !.in_svg = ~contains(trimmed, S_svg_close)]
       ELSE footer_step(st, line, trimmed)

\* lines 440-463: one line of the loop, front matter and fences first
sanitize_line(st, raw_line) ==
  LET line == trim_end(raw_line)
      trimmed == trim_start(line)
      st1 == [st EXCEPT !.frontmatter_checked = TRUE]
  IN IF ~st.frontmatter_checked /\ trimmed = S_rule_dash
       THEN [st1 EXCEPT !.skipping_frontmatter = TRUE]
     ELSE IF st1.skipping_frontmatter
       THEN [st1 EXCEPT !.skipping_frontmatter = (trimmed # S_rule_dash)]
     ELSE IF is_fence(trimmed)
       THEN [st1 EXCEPT !.in_code = ~@, !.out = @ \o line \o NL,
                        !.prev_blank = FALSE]
     ELSE svg_step(st1, line, trimmed)

RECURSIVE sanitize_lines(_, _, _)
sanitize_lines(ls, i, st) ==
  IF i > Len(ls) THEN st
  ELSE sanitize_lines(ls, i + 1, sanitize_line(st, ls[i]))

sanitize_markdown(input) == sanitize_lines(lines(input), 1, SanitizeStart).out

\* the lines a page is made of in the model
InputLines ==
  {<< >>,
   <<"x", " ">>,
   S_fence_tick,
   <<"#", " ", "F", "o", "o", "t", "e", "r">>,
   <<"#", " ", "H">>,
   <<"[", "a", "]", "(", "b", ")">>,
   <<"C", "o", "p", "y">>,
   <<"-", "-", "-">>,
   <<"[", "S", "V", "G", " ", "I", "m", "a", "g", "e", "]", " ", "C", "o", "p", "y">>,
   <<"!", "[", "i", "]", "(", "u", ")">>,
   S_svg_image \o <<"[", "a", "]", "(", "b", ")">>}

\* every line followed by a line feed
text_of(ls) == Concat([i \in 1..Len(ls) |-> ls[i] \o NL])

Texts ==
  {text_of(ls) : ls \in UNION {[1..n -> InputLines] : n \in 1..MaxLines}}

SanitizeInit ==
  /\ Quiet
  /\ arg \in Texts
  /\ val = None

\* sanitize_markdown(arg), then sanitize_markdown of its output
ApplySanitize ==
  /\ val = None
  /\ arg \in Texts
  /\ val' = Some(<<sanitize_markdown(arg)>>)
  /\ UNCHANGED arg
  /\ UNCHANGED quietVars

ApplySanitizeAgain ==
  /\ arg \in Texts
  /\ IsSome(val)
  /\ Len(Unwrap(val)) = 1
  /\ val' = Some(Append(Unwrap(val), sanitize_markdown(Unwrap(val)[1])))
  /\ UNCHANGED arg
  /\ UNCHANGED quietVars

SanitizeNext ==
  \/ ApplySanitize
  \/ ApplySanitizeAgain

SanitizeSpec == SanitizeInit /\ [][SanitizeNext]_vars

\* ------------------------------------------------------------------------
\* http.rs fetch_limited: the response body arrives as a stream of chunks.
\* A byte is <<i, j>>, byte j of item i of the stream.
\* ------------------------------------------------------------------------
\* largest max_bytes Init draws
MaxBytes == 3
\* largest chunk the stream yields
MaxChunk == 2
\* largest number of items the stream yields
MaxItems == 2

StreamError == [err |-> "failed while streaming response body"]
Chunk(i, n) == [bytes |-> [j \in 1..n |-> <<i, j>>]]

\* the streams of at most n items: chunks (an empty one too), or an error
RECURSIVE Streams(_)
Streams(n) ==
  IF n = 0 THEN {<< >>}
  ELSE Streams(n - 1)
         \cup {Append(st, item) :
                 st \in {t \in Streams(n - 1) : Len(t) = n - 1},
                 item \in {Chunk(n, k) : k \in 0..MaxChunk}
                            \cup {StreamError}}

is_chunk(item) == "bytes" \in DOMAIN item

\* line 101 testing the buffer without the chunk that is to be added
too_large_after(buf, chunk, max_bytes) == Len(buf) > max_bytes

\* line 101
too_large(buf, chunk, max_bytes) == Len(buf) + Len(chunk) > max_bytes

FetchInit ==
  /\ Quiet
  /\ arg \in [max_bytes : 0..MaxBytes, stream : Streams(MaxItems),
              send_ok : BOOLEAN]
  /\ val = None

\* lines 80-97: the request is sent and the response head arrives
FetchSend ==
  /\ val = None
  /\ locals = None
  /\ IF arg.send_ok
       THEN /\ locals' = Some([buf |-> << >>, next |-> 1])
            /\ val' = val
       ELSE /\ locals' = locals
            /\ val' = Some(Err("HTTP request failed"))
  /\ UNCHANGED <<root, refresh, opts, pc, result, seen, queue, tasks, pages,
                 manifest_file, manifest_writes, names, inodes, faults,
                 sitemap, calls, arg>>

\* lines 99-108: stream.next() yields an item
FetchItem ==
  /\ val = None
  /\ IsSome(locals)
  /\ Unwrap(locals).next <= Len(arg.stream)
  /\ LET l == Unwrap(locals)
         item == arg.stream[l.next]
     IN IF ~is_chunk(item)
          THEN /\ val' = Some(Err(item.err))
               /\ locals' = locals
        ELSE IF too_large(l.buf, item.bytes, arg.max_bytes)
          THEN /\ val' = Some(Err("response body too large"))
               /\ locals' = locals
        ELSE /\ val' = val
             /\ locals' = Some([buf |-> l.buf \o item.bytes,
                                next |-> l.next + 1])
  /\ UNCHANGED <<root, refresh, opts, pc, result, seen, queue, tasks, pages,
                 manifest_file, manifest_writes, names, inodes, faults,
                 sitemap, calls, arg>>

\* lines 110-116: the stream has ended
FetchEnd ==
  /\ val = None
  /\ IsSome(locals)
  /\ Unwrap(locals).next > Len(arg.stream)
  /\ val' = Some(Ok([body |-> Unwrap(locals).buf]))
  /\ UNCHANGED <<root, refresh, opts, pc, result, seen, queue, tasks, pages,
                 manifest_file, manifest_writes, names, inodes, faults,
                 sitemap, calls, arg, locals>>

FetchNext == FetchSend \/ FetchItem \/ FetchEnd

FetchSpec == FetchInit /\ [][FetchNext]_vars

\* ------------------------------------------------------------------------
\* http.rs build_client_internal: the redirect policy of the crawl's client.
\* reqwest hands the policy the Location of a redirect response and the URLs
\* requested so far in the chain, the one that was just answered included.
\* ------------------------------------------------------------------------
\* line 54
RedirectCap == 10

H_www == <<"w","w","w",".","h">>
U_www == MkUrl(S_https, H_www, P_d_slash, None)
\* a Location without a host
U_nohost == [scheme |-> <<"d","a","t","a">>, host |-> None, port |-> None,
             path |-> <<"x">>, query |-> None, fragment |-> None]

\* where the server may redirect to
RedirectTargets == {U_dir, U_www, U_ext, U_nohost}
RedirectStarts == {U_dir, U_ext}

\* the policy following every host below the cap
redirect_policy_any_host(previous, url, hosts) ==
  IF Len(previous) >= RedirectCap THEN "stop" ELSE "follow"

\* lines 53-64: the closure given to redirect::Policy::custom
redirect_policy(previous, url, hosts) ==
  IF Len(previous) >= RedirectCap THEN "stop"
  ELSE IF IsSome(url.host)
            /\ to_ascii_lowercase(Unwrap(url.host)) \in hosts
    THEN "follow"
  ELSE "stop"

\* the client is built for the hosts of a root and asked for a URL
RedirectInit ==
  /\ Quiet
  /\ arg \in [allowed_hosts : {Range(host_variants(H_h)),
                               Range(host_variants(H_ext))},
              url : RedirectStarts]
  /\ val = None

RedirectUnchanged ==
  UNCHANGED <<root, refresh, opts, pc, result, seen, queue, tasks, pages,
              manifest_file, manifest_writes, names, inodes, faults,
              sitemap, calls, arg>>

\* client.get(url).send(): the first request of the chain
RedirectSend ==
  /\ val = None
  /\ locals = None
  /\ locals' = Some([previous |-> << >>, url |-> arg.url])
  /\ val' = val
  /\ RedirectUnchanged

\* the request is answered with a response that is not a redirect
RedirectFinal ==
  /\ val = None
  /\ IsSome(locals)
  /\ val' = Some(Ok([final_url |-> Unwrap(locals).url, status |-> 200]))
  /\ locals' = locals
  /\ RedirectUnchanged

\* the request is answered with a redirect: the policy is asked, and the
\* next request is sent or the redirect response is the result
RedirectAttempt ==
  /\ val = None
  /\ IsSome(locals)
  /\ \E target \in RedirectTargets :
       LET l == Unwrap(locals)
           previous == Append(l.previous, l.url)
       IN IF redirect_policy(previous, target, arg.allowed_hosts) = "follow"
            THEN /\ locals' = Some([previous |-> previous, url |-> target])
                 /\ val' = val
            ELSE /\ locals' = locals
                 /\ val' = Some(Ok([final_url |-> l.url, status |-> 302]))
  /\ RedirectUnchanged

RedirectNext == RedirectSend \/ RedirectFinal \/ RedirectAttempt

RedirectSpec == RedirectInit /\ [][RedirectNext]_vars

\* ------------------------------------------------------------------------
\* sitemap.rs discover_sitemap_urls.  An XML document is the sequence of
\* events quick_xml reads from it; a body is such a document, possibly
\* gzipped.
\* ------------------------------------------------------------------------
XStart(n) == [t |-> "start", name |-> n]
XText(x) == [t |-> "text", text |-> x]
XEnd(n) == [t |-> "end", name |-> n]
XErr == [t |-> "err"]

\* <tag><loc>text</loc></tag>
XLoc(tag, text) ==
  <<XStart(tag), XStart("loc"), XText(text), XEnd("loc"), XEnd(tag)>>

ParseStart ==
  [ctx |-> "None", in_loc |-> FALSE, loc |-> << >>, urls |-> << >>,
   child_sitemaps |-> << >>]

\* lines 144-157: the end of an element
parse_end(st, name) ==
  IF name = "loc"
    THEN With(Url_parse(trim(st.loc)), LAMBDA url :
           IF trim(st.loc) # << >> /\ IsOk(url)
             THEN IF st.ctx = "Url"
                    THEN [st EXCEPT !.in_loc = FALSE,
                                    !.urls = Append(@, url.val)]
                  ELSE IF st.ctx = "Sitemap"
                    THEN [st EXCEPT !.in_loc = FALSE,
                                    !.child_sitemaps = Append(@, url.val)]
                  ELSE [st EXCEPT !.in_loc = FALSE]
             ELSE [st EXCEPT !.in_loc = FALSE])
  ELSE IF name \in {"url", "sitemap"} THEN [st EXCEPT !.ctx = "None"]
  ELSE st

\* lines 123-163: one event that is not an error
parse_event(st, e) ==
  IF e.t = "start"
    THEN IF e.name = "url" THEN [st EXCEPT !.ctx = "Url"]
         ELSE IF e.name = "sitemap" THEN [st EXCEPT !.ctx = "Sitemap"]
         ELSE IF e.name = "loc"
           THEN [st EXCEPT !.in_loc = TRUE, !.loc = << >>]
         ELSE st
  ELSE IF e.t = "text"
    THEN IF st.in_loc THEN [st EXCEPT !.loc = @ \o e.text] ELSE st
  ELSE parse_end(st, e.name)

\* the loop of lines 122-166; the end of the sequence is Event::Eof
RECURSIVE parse_events(_, _, _)
parse_events(events, i, st) ==
  IF i > Len(events)
    THEN Ok([urls |-> st.urls, child_sitemaps |-> st.child_sitemaps])
  ELSE IF events[i].t = "err" THEN Err("sitemap XML parse error")
  ELSE With(parse_event(st, events[i]), LAMBDA n :
         parse_events(events, i + 1, n))

parse_sitemap_xml(bytes) == parse_events(bytes, 1, ParseStart)

\* a response body: magic says that it starts with 1F 8B, gz_ok that the
\* gzip stream decodes, xml is the document (after decoding)
Body(magic, gz_ok, xml) == [magic |-> magic, gz_ok |-> gz_ok, xml |-> xml]

maybe_gunzip(body) ==
  IF body.magic
    THEN IF body.gz_ok THEN Ok(body.xml)
         ELSE Err("failed to gunzip sitemap")
    ELSE Ok(body.xml)

\* lines 25-32
SitemapCandidates ==
  <<<<"s","i","t","e","m","a","p",".","x","m","l">>,
     <<"s","i","t","e","m","a","p","_","i","n","d","e","x",".","x","m","l">>,
     <<"s","i","t","e","m","a","p","-","i","n","d","e","x",".","x","m","l">>,
     <<"s","i","t","e","m","a","p",".","x","m","l",".","g","z">>,
     <<"s","i","t","e","m","a","p","_","i","n","d","e","x",".","x","m","l",".","g","z">>,
     <<"s","i","t","e","m","a","p","-","i","n","d","e","x",".","x","m","l",".","g","z">>>>

\* origin.join(name)
origin_join(base, name) == MkUrl(base.scheme, Unwrap(base.host),
                                 <<"/">> \o name, None)

SM_a == MkUrl(S_https, H_h, <<"/","a",".","x","m","l">>, None)
SM_b == MkUrl(S_https, H_h, <<"/","b",".","x","m","l">>, None)
SM_ext == MkUrl(S_https, H_ext, <<"/","a",".","x","m","l">>, None)

\* the documents of the site
Doc_index ==
  <<XStart("sitemapindex")>> \o XLoc("sitemap", as_str(SM_a))
    \o XLoc("sitemap", as_str(SM_b)) \o <<XEnd("sitemapindex")>>
\* an index naming a sitemap of another host
Doc_foreign ==
  <<XStart("sitemapindex")>> \o XLoc("sitemap", as_str(SM_ext))
    \o XLoc("sitemap", as_str(SM_a)) \o <<XEnd("sitemapindex")>>
Doc_seeds ==
  <<XStart("urlset")>> \o XLoc("url", as_str(SitemapUrls[1]))
    \o XLoc("url", <<" ">> \o as_str(SitemapUrls[2]) \o <<" ">>)
    \o <<XEnd("urlset")>>
Doc_x ==
  <<XStart("urlset")>> \o XLoc("url", as_str(U_x))
    \o XLoc("url", <<"x">>) \o XLoc("other", as_str(U_sib))
    \o <<XEnd("urlset")>>
\* a document cut off after its first entry
Doc_malformed ==
  <<XStart("urlset")>> \o XLoc("url", as_str(U_x)) \o <<XStart("url"), XErr>>

\* what the server does with a request
FetchFails == [t |-> "err"]
Status(n) == [t |-> "resp", status |-> n, body |-> Body(FALSE, FALSE, << >>)]
Served(body) == [t |-> "resp", status |-> 200, body |-> body]

RootAnswers ==
  {FetchFails, Status(404), Status(500), Served(Body(FALSE, FALSE, Doc_index)),
   Served(Body(TRUE, TRUE, Doc_seeds)),
   Served(Body(FALSE, FALSE, Doc_foreign))}
ChildAnswers ==
  {FetchFails, Status(404), Served(Body(FALSE, FALSE, Doc_x)),
   Served(Body(FALSE, FALSE, Doc_malformed)),
   Served(Body(TRUE, FALSE, Doc_x)),
   Served(Body(FALSE, FALSE, Doc_index))}

\* the site: the first two candidates and the two children are drawn, the
\* other candidates are missing
Sites ==
  {[c1 |-> c1, c2 |-> c2, a |-> a, b |-> b] :
     c1 \in RootAnswers, c2 \in RootAnswers,
     a \in ChildAnswers, b \in ChildAnswers}

answer(site, base, url) ==
  IF url = origin_join(base, SitemapCandidates[1]) THEN site.c1
  ELSE IF url = origin_join(base, SitemapCandidates[2]) THEN site.c2
  ELSE IF url = SM_a THEN site.a
  ELSE IF url = SM_b THEN site.b
  ELSE Status(404)

is_success(status) == status >= 200 /\ status <= 299

SitemapInit ==
  /\ Quiet
  /\ arg \in [base : {U_dir}, site : Sites]
  /\ val = None

SitemapUnchanged ==
  UNCHANGED <<root, refresh, opts, pc, result, seen, queue, tasks, pages,
              manifest_file, manifest_writes, names, inodes, faults,
              sitemap, calls, arg>>

\* lines 23-34: the function starts
SitemapEnter ==
  /\ val = None
  /\ locals = None
  /\ locals' = Some([stage |-> "probe", cand |-> 1, queue |-> << >>,
                     seen_sitemaps |-> {}, out |-> << >>,
                     fetched |-> << >>])
  /\ val' = val
  /\ SitemapUnchanged

\* lines 35-58: one candidate is requested; the first that answers with a
\* success status ends the search, and the queue is set up after it
SitemapProbe ==
  /\ val = None
  /\ IsSome(locals)
  /\ Unwrap(locals).stage = "probe"
  /\ LET l == Unwrap(locals)
         url == origin_join(arg.base, SitemapCandidates[l.cand])
         a == answer(arg.site, arg.base, url)
         hit == a.t = "resp" /\ a.status # 404 /\ is_success(a.status)
     IN locals' = Some([l EXCEPT
          !.cand = l.cand + 1,
          !.stage = IF hit \/ l.cand = Len(SitemapCandidates)
                      THEN "loop" ELSE "probe",
          !.queue = IF hit THEN <<url>> ELSE << >>])
  /\ val' = val
  /\ SitemapUnchanged

\* a visited set that remembers nothing
already_seen_never(key, seen_sitemaps) == FALSE

\* line 63: the key is in the visited set
already_seen(key, seen_sitemaps) == key \in seen_sitemaps

\* lines 61-81: one iteration of the loop over the queue
SitemapVisit ==
  /\ val = None
  /\ IsSome(locals)
  /\ Unwrap(locals).stage = "loop"
  /\ Unwrap(locals).queue # << >>
  /\ LET l == Unwrap(locals)
         sm_url == Head(l.queue)
         key == as_str(sm_url)
         rest == [l EXCEPT !.queue = Tail(l.queue)]
         a == answer(arg.site, arg.base, sm_url)
         visited == [rest EXCEPT !.seen_sitemaps = @ \cup {key},
                                 !.fetched = Append(@, sm_url)]
     IN IF already_seen(key, l.seen_sitemaps)
          THEN locals' = Some(rest) /\ val' = val
        ELSE IF a.t = "err" \/ ~is_success(a.status)
          THEN locals' = Some(visited) /\ val' = val
        ELSE IF ~IsOk(maybe_gunzip(a.body))
          THEN locals' = Some(visited)
               /\ val' = Some(Err(maybe_gunzip(a.body).err))
        ELSE \E parsed \in {parse_sitemap_xml(maybe_gunzip(a.body).val)} :
               IF ~IsOk(parsed)
                 THEN locals' = Some(visited) /\ val' = Some(parsed)
                 ELSE /\ locals' = Some([visited EXCEPT
                           !.out = @ \o parsed.val.urls,
                           !.queue = @ \o parsed.val.child_sitemaps])
                      /\ val' = val
  /\ SitemapUnchanged

\* line 83
SitemapReturn ==
  /\ val = None
  /\ IsSome(locals)
  /\ Unwrap(locals).stage = "loop"
  /\ Unwrap(locals).queue = << >>
  /\ val' = Some(Ok(Unwrap(locals).out))
  /\ locals' = locals
  /\ SitemapUnchanged

SitemapNext ==
  SitemapEnter \/ SitemapProbe \/ SitemapVisit \/ SitemapReturn

SitemapSpec == SitemapInit /\ [][SitemapNext]_vars

\* the function is one future: once awaited it runs until it returns
FairSitemapSpec ==
  SitemapInit /\ [][SitemapNext]_vars /\ WF_vars(SitemapNext)

\* ------------------------------------------------------------------------
\* Classifying a token of the command line: app.rs parse_source, which run()
\* calls, and urlspec.rs parse_source_token
\* ------------------------------------------------------------------------
Page(url) == [kind |-> "Page", url |-> url]
CrawlRoot(url) == [kind |-> "CrawlRoot", url |-> url]
Pattern(pat) == [kind |-> "Pattern", pat |-> pat]

\* util.rs is_url_like
is_url_like(s) ==
  \/ starts_with(trim(s), S_https \o <<":","/","/">>)
  \/ starts_with(trim(s), S_http \o <<":","/","/">>)

\* app.rs lines 192-208
parse_source(s, force_crawl, force_page) ==
  IF ~force_page /\ contains_glob(s)
    THEN With(UrlPattern_new(s), LAMBDA pat :
           IF IsOk(pat) THEN Ok(Pattern(pat.val)) ELSE pat)
  ELSE
    With(Url_parse(s), LAMBDA url :
      IF ~IsOk(url) THEN Err("invalid URL")
      ELSE IF force_crawl /\ ~force_page THEN Ok(CrawlRoot(url.val))
      ELSE IF ~force_page /\ ends_with(trim_end(s), <<"/">>)
        THEN Ok(CrawlRoot(url.val))
      ELSE Ok(Page(url.val)))

\* urlspec.rs lines 71-93
parse_source_token(token, force_crawl, force_page) ==
  With(trim(token), LAMBDA t :
    IF ~is_url_like(t) THEN Err("not a URL")
    ELSE IF contains_glob(t)
      THEN With(UrlPattern_new(t), LAMBDA pat :
             IF IsOk(pat) THEN Ok(Pattern(pat.val)) ELSE pat)
    ELSE
      With(Url_parse(t), LAMBDA url :
        IF ~IsOk(url) THEN Err("invalid URL")
        ELSE IF force_page THEN Ok(Page(url.val))
        ELSE IF force_crawl \/ ends_with(t, <<"/">>)
          THEN Ok(CrawlRoot(url.val))
        ELSE Ok(Page(url.val))))

\* the tokens of the model
Tokens ==
  {<<"h","t","t","p","s",":","/","/","h","/","d","/">>,
   <<"h","t","t","p","s",":","/","/","h","/","d","/","x">>,
   <<"h","t","t","p","s",":","/","/","h","/","d","/","x","?","y","=","1">>,
   <<"h","t","t","p","s",":","/","/","h","/","d","/","?","y">>,
   <<"h","t","t","p","s",":","/","/","h","/","d","/","*">>,
   <<"h","t","t","p","s",":","/","/","h","/","d","/","[","a","]">>,
   <<"h","/","d","/","x">>,
   <<"*">>,
   <<"h","t","t","p",":","/","/","h","/">>,
   <<"h","t","t","p","s",":","/","/">>}

ClassifyInit ==
  /\ Quiet
  /\ arg \in [token : Tokens, force_crawl : BOOLEAN, force_page : BOOLEAN]
  /\ val = None

\* what val holds once one of the two functions has been applied
Classified(app, lib) == Some([app |-> app, lib |-> lib])

ApplyParseSource ==
  /\ IF val = None THEN TRUE ELSE Unwrap(val).app = None
  /\ val' = Classified(
       Some(parse_source(arg.token, arg.force_crawl, arg.force_page)),
       IF val = None THEN None ELSE Unwrap(val).lib)
  /\ UNCHANGED arg
  /\ UNCHANGED quietVars

ApplyParseSourceToken ==
  /\ IF val = None THEN TRUE ELSE Unwrap(val).lib = None
  /\ val' = Classified(
       IF val = None THEN None ELSE Unwrap(val).app,
       Some(parse_source_token(arg.token, arg.force_crawl, arg.force_page)))
  /\ UNCHANGED arg
  /\ UNCHANGED quietVars

ClassifyNext == ApplyParseSource \/ ApplyParseSourceToken

ClassifySpec == ClassifyInit /\ [][ClassifyNext]_vars

\* ------------------------------------------------------------------------
\* app.rs run(): the local targets of a Pattern source, from the manifest
\* ensure_subtree_cached returned for the root of the pattern
\* ------------------------------------------------------------------------
\* largest number of pages in the manifest
MaxPages == 3

\* urlspec.rs lines 42-45
is_subtree_pattern(pat) ==
  \/ ends_with(pat.original, <<"/","*","*","/","*">>)
  \/ ends_with(pat.original, <<"/","*","*","/","*",".","*">>)
  \/ ends_with(pat.original, <<"/","*","*">>)

\* dedupe_paths keeping every path
dedupe_paths_none(paths) == paths

\* app.rs lines 216-220: the first occurrence of every path is kept
RECURSIVE dedupe_paths(_)
dedupe_paths(paths) ==
  IF paths = << >> THEN << >>
  ELSE With(dedupe_paths(SubSeq(paths, 1, Len(paths) - 1)), LAMBDA kept :
         IF paths[Len(paths)] \in Range(kept) THEN kept
         ELSE Append(kept, paths[Len(paths)]))

\* lines 155-159: the loop over the pages of the manifest
RECURSIVE matching_paths(_, _, _)
matching_paths(pat, pages_in, i) ==
  IF i > Len(pages_in) THEN << >>
  ELSE (IF matches_url_string(pat, pages_in[i].url)
          THEN <<pages_in[i].cache_path>> ELSE << >>)
         \o matching_paths(pat, pages_in, i + 1)

\* lines 143-165 for one Pattern source
pattern_targets(pat, manifest) ==
  IF is_subtree_pattern(pat)
    THEN IF IsOk(subtree_dir(pat.root))
           THEN Ok(dedupe_paths(<<subtree_dir(pat.root).val>>))
           ELSE subtree_dir(pat.root)
    ELSE Ok(dedupe_paths(matching_paths(pat, manifest.pages, 1)))

TargetPatterns ==
  {<<"h","t","t","p","s",":","/","/","h","/","a","/","*">>,
   <<"h","t","t","p","s",":","/","/","h","/","a","/","*",".","h","t","m","l">>,
   <<"h","t","t","p","s",":","/","/","h","/","a","/","*","*","/","*">>,
   <<"h","t","t","p","s",":","/","/","h","/","a","/","*","*">>,
   <<"h","t","t","p","s",":","/","/","h","/","a","/","*","*","/","*",".","*">>,
   <<"h","t","t","p","s",":","/","/","h","/","*","/","x">>,
   <<"h","t","t","p","s",":","/","/","h","/","a","/","x","*","/","*","*">>}
TargetUrls ==
  {<<"h","t","t","p","s",":","/","/","h","/","a","/","x">>,
   <<"h","t","t","p","s",":","/","/","h","/","a","/","x","/","y">>,
   <<"h","t","t","p","s",":","/","/","h","/","a","/","z">>,
   <<"h","t","t","p","s",":","/","/","h","/","a","/","x",".","h","t","m","l">>,
   <<"h","t","t","p","s",":","/","/","h","/","a","/">>}

\* the manifest row of a page whose final URL is url
RowOf(url) ==
  [url |-> url, cache_path |-> page_path(Url_parse(url).val).val,
   status |-> 200, error |-> None]
TargetRows == {RowOf(u) : u \in TargetUrls}

RECURSIVE SeqsUpTo(_, _)
SeqsUpTo(S, n) ==
  IF n = 0 THEN {<< >>}
  ELSE SeqsUpTo(S, n - 1)
         \cup {Append(q, x) : q \in {r \in SeqsUpTo(S, n - 1) : Len(r) = n - 1},
                              x \in S}

TargetsInit ==
  /\ Quiet
  /\ arg \in [pattern : TargetPatterns, pages : SeqsUpTo(TargetRows, MaxPages)]
  /\ val = None

\* parse_source gives Pattern(pat), the crawl of pat.root gives the manifest
ApplyPatternTargets ==
  /\ val = None
  /\ "pattern" \in DOMAIN arg
  /\ \E src \in {parse_source(arg.pattern, FALSE, FALSE)} :
       /\ IsOk(src)
       /\ src.val.kind = "Pattern"
       /\ val' = Some([pat |-> src.val.pat,
                       targets |-> pattern_targets(src.val.pat,
                         [version |-> 1,
                          root_url |-> as_str(src.val.pat.root),
                          pages |-> arg.pages])])
  /\ UNCHANGED arg
  /\ UNCHANGED quietVars

TargetsSpec == TargetsInit /\ [][ApplyPatternTargets]_vars

\* ------------------------------------------------------------------------
\* crawl.rs CodeBlockVisitor::visit_code_block
CodeBlockStyles == {"Indented", "Backticks", "Tildes"}

S_typescript == <<"t","y","p","e","s","c","r","i","p","t">>
S_javascript == <<"j","a","v","a","s","c","r","i","p","t">>
S_python == <<"p","y","t","h","o","n">>
S_bash == <<"b","a","s","h">>

\* a visitor honouring the requested style: four spaces before every line
visit_code_block_as_requested(self, lang, code) ==
  IF self.code_block_style = "Indented"
    THEN Concat([i \in 1..Len(lines(trim_matches(code, "\n"))) |->
                   <<" ", " ", " ", " ">>
                     \o lines(trim_matches(code, "\n"))[i] \o NL])
    ELSE (IF self.code_block_style = "Tildes" THEN S_fence_tilde
          ELSE S_fence_tick)
           \o (IF IsSome(lang) THEN Unwrap(lang) ELSE << >>) \o NL
           \o trim_matches(code, "\n") \o NL
           \o (IF self.code_block_style = "Tildes" THEN S_fence_tilde
               ELSE S_fence_tick) \o NL

\* lines 582-616; self is the visitor, lang the hint of the element
visit_code_block(self, lang, code) ==
  LET raw == to_ascii_lowercase(trim(IF IsSome(lang) THEN Unwrap(lang)
                                     ELSE << >>))
      lang1 == IF raw = <<"t","s">> THEN S_typescript
               ELSE IF raw = <<"j","s">> THEN S_javascript
               ELSE IF raw = <<"p","y">> THEN S_python
               ELSE IF raw = <<"s","h">> \/ raw = <<"s","h","e","l","l">>
                 THEN S_bash
               ELSE raw
      lang2 == IF lang1 # << >> THEN lang1
               ELSE IF self.default_language # << >>
                 THEN self.default_language
               ELSE << >>
      fence == IF self.code_block_style = "Tildes" THEN S_fence_tilde
               ELSE S_fence_tick
  IN fence \o (IF lang2 # << >> THEN lang2 ELSE << >>) \o NL
       \o trim_matches(code, "\n") \o NL \o fence \o NL

LangHints ==
  {None} \cup {Some(h) : h \in
   {<< >>,
    <<"t","s">>,
    <<"T","S">>,
    <<"j","s">>,
    <<"p","y">>,
    <<"s","h">>,
    <<"s","h","e","l","l">>,
    <<"S","h","e","l","l">>,
    <<"r","u","s","t">>,
    <<"R","u","s","t">>,
    <<" ","t","s"," ">>,
    <<" "," ">>,
    <<"t","s","x">>}}
DefaultLanguages == {<< >>, <<"t","e","x","t">>, <<"J","S">>}
Codes == {<<"a">>, <<"\n","a","\n">>, <<"a","\n"," ","b">>, << >>}

CodeInit ==
  /\ Quiet
  /\ arg \in [code_block_style : CodeBlockStyles,
              default_language : DefaultLanguages,
              lang : LangHints, code : Codes]
  /\ val = None

ApplyVisitCodeBlock ==
  /\ val = None
  /\ "code_block_style" \in DOMAIN arg
  /\ val' = Some(visit_code_block(arg, arg.lang, arg.code))
  /\ UNCHANGED arg
  /\ UNCHANGED quietVars

CodeSpec == CodeInit /\ [][ApplyVisitCodeBlock]_vars

\* ------------------------------------------------------------------------
\* ensure_subtree_cached called through the library, with CrawlOptions the
\* caller builds: parallelism is any usize, not the clamped value of run()
\* ------------------------------------------------------------------------
DirectParallelism == 0..MaxPar

DirectInit ==
  /\ root \in Roots
  /\ refresh \in BOOLEAN
  /\ manifest_file = None
  /\ names = << >>
  /\ inodes = << >>
  /\ opts \in [parallelism : DirectParallelism, max_depth : MaxDepthFlags,
               use_sitemap : BOOLEAN]
  /\ pc = "entry"
  /\ result = None
  /\ seen = {}
  /\ queue = << >>
  /\ tasks = << >>
  /\ pages = << >>
  /\ faults = 0
  /\ manifest_writes = 0
  /\ sitemap = None
  /\ calls = << >>
  /\ arg = None
  /\ val = None
  /\ locals = None

\* lines 205-228: an iteration that spawns nothing and finds the JoinSet
\* empty: join_next() is None at once and the while loop starts over
JoinNone ==
  /\ pc = "loop"
  /\ ~loop_done
  /\ ~can_spawn
  /\ joinset_len = 0
  /\ UNCHANGED vars

DirectNext == Next \/ JoinNone

DirectSpec == DirectInit /\ [][DirectNext]_vars

\* ------------------------------------------------------------------------
\* One link on its way through the crawl: admitted to the frontier
\* (crawl.rs 252-260), requested through the client of the root's hosts
\* (http.rs 50-64), and stored under page_path of the final URL
\* (crawl.rs 360-369).
\* ------------------------------------------------------------------------
S_8443 == <<"8","4","4","3">>
U_www_x == MkUrl(S_https, H_www, P_x, None)
U_http_x == MkUrl(S_http, H_h, P_x, None)
U_port_x == [U_x EXCEPT !.port = Some(S_8443)]

PlaceRoots == {U_top, U_dir, U_nodir}
PlaceLinks == {U_x, U_www_x, U_http_x, U_port_x, U_sib, U_ext}
\* where the server sends the request: nowhere, or to one of these
PlaceRedirects == {None, Some(U_y), Some(U_sib), Some(U_www), Some(U_ext)}

PlaceInit ==
  /\ Quiet
  /\ arg \in [root : PlaceRoots, link : PlaceLinks,
              redirect : PlaceRedirects]
  /\ val = None

PlaceUnchanged ==
  UNCHANGED <<root, refresh, opts, pc, result, seen, queue, tasks, pages,
              manifest_file, manifest_writes, names, inodes, faults,
              sitemap, calls, arg>>

\* the link is tested by is_allowed_child and pushed on the frontier
PlaceAdmit ==
  /\ val = None
  /\ locals = None
  /\ "link" \in DOMAIN arg
  /\ IF is_allowed_child(arg.link, Range(host_variants(Unwrap(arg.root.host))),
                         path_prefix(arg.root))
       THEN locals' = Some([url |-> arg.link]) /\ val' = val
       ELSE locals' = locals /\ val' = Some([cache_path |-> None])
  /\ PlaceUnchanged

\* the task requests the URL; a redirect is followed when the policy of the
\* client says so, otherwise the 3xx response itself is the answer, which
\* is no HTML page.  The page is stored under page_path(final_url).
PlaceFetch ==
  /\ val = None
  /\ IsSome(locals)
  /\ "link" \in DOMAIN arg
  /\ LET url == Unwrap(locals).url
         hosts == Range(host_variants(Unwrap(arg.root.host)))
     IN IF arg.redirect = None
          THEN val' = Some([cache_path |-> Some(page_path(url).val)])
        ELSE IF redirect_policy(<<url>>, Unwrap(arg.redirect), hosts)
                  = "follow"
          THEN val' = Some([cache_path |->
                              Some(page_path(Unwrap(arg.redirect)).val)])
        ELSE val' = Some([cache_path |-> None])
  /\ locals' = locals
  /\ PlaceUnchanged

PlaceNext == PlaceAdmit \/ PlaceFetch

PlaceSpec == PlaceInit /\ [][PlaceNext]_vars

\* ------------------------------------------------------------------------
\* Properties
\* ------------------------------------------------------------------------
Joined == {t \in DOMAIN tasks : tasks[t].joined}
FailedWith(t, errs) ==
  /\ IsSome(tasks[t].res)
  /\ ~IsOk(Unwrap(tasks[t].res))
  /\ Unwrap(tasks[t].res).err \in errs
Returned == pc = "returned" /\ IsSome(result)
ReturnedOk == Returned /\ IsOk(Unwrap(result))
ReturnedErr == Returned /\ ~IsOk(Unwrap(result))

FileAt(p) == IF p \in DOMAIN names THEN Some(inodes[names[p]]) ELSE None
PagePaths == {page_path_of[u].val : u \in {U_top, U_dir, U_nodir, U_x, U_y}}
IsComplete(content) == \E w \in 0..Len(tasks) : content = Complete(w)

\* C1: a per-URL failure of a page task (transport error, oversize body,
\* cache write failure) never propagates upward: once such a task has been
\* joined the crawl is still running or has returned a manifest.
C1_PerUrlFailureNotPropagated ==
  \A t \in Joined :
    FailedWith(t, {"fetch_limited failed", "cache write failed"})
      => ~ReturnedErr

\* C2: a panic in one crawl task is not fatal: once the panicked task has
\* been joined the crawl is still running or has returned a manifest.
C2_PanicNotFatal ==
  \A t \in Joined : tasks[t].st = "panicked" => ~ReturnedErr

\* C3: with no I/O error, concurrent write_atomic calls on one final path
\* are serialized by the rename: the final path names nothing or one
\* writer's complete content, and no write_atomic call fails.
C3_ConcurrentWritesSerialized ==
  faults = 0 =>
    /\ \A p \in PagePaths :
         IsSome(FileAt(p)) => IsComplete(Unwrap(FileAt(p)))
    /\ \A t \in DOMAIN tasks : ~FailedWith(t, {"failed to replace: ENOENT"})

\* the tasks writing to path p, and one step as seen from a single writer
WritersOf(p) == {t \in DOMAIN tasks : tasks[t].path = Some(p)}
C4_SingleWriterStep ==
  \A p \in PagePaths :
    Cardinality(WritersOf(p)') = 1 =>
      LET t == CHOOSE w \in WritersOf(p)' : TRUE
      IN IF /\ t \in DOMAIN tasks
            /\ tasks[t].st = "rename"
            /\ tasks'[t].st = "done"
            /\ IsOk(Unwrap(tasks'[t].res))
           THEN FileAt(p)' = Some(Complete(t))
           ELSE FileAt(p)' = FileAt(p)
\* C4: for a path with a single writer, every step other than the writer's
\* successful rename leaves the file at the final path as it was (the
\* earlier version, or no file), a failure included; the rename makes it
\* exactly the writer's complete bytes.
C4_SingleWriterPublishesByRename == [][C4_SingleWriterStep]_vars

\* a single writer has replaced the earlier version of /d/x by its rename
C4_Witness_RenamedOverOld ==
  /\ IsSome(manifest_file)
  /\ Unwrap(manifest_file).json
  /\ Unwrap(manifest_file).manifest.pages # << >>
  /\ pc = "loop"
  /\ LET p == page_path_of[U_x].val
     IN /\ Cardinality(WritersOf(p)) = 1
        /\ \A t \in WritersOf(p) :
             /\ tasks[t].st = "done"
             /\ IsOk(Unwrap(tasks[t].res))
             /\ FileAt(p) = Some(Complete(t))

\* the canonical keys of the frontier entries and of the spawned tasks
FrontierKeys == [i \in 1..Len(queue) |-> canonical_key(queue[i].url)]
SpawnedKeys == [t \in 1..Len(tasks) |-> canonical_key(tasks[t].url)]
\* C5: at most one task is spawned per canonical URL; every frontier entry's
\* key is in the visited set, and no key is in the frontier twice or in the
\* frontier after its task was spawned.
C5_OneTaskPerCanonicalUrl ==
  LET all == SpawnedKeys \o FrontierKeys
  IN /\ \A i, j \in 1..Len(all) : all[i] = all[j] => i = j
     /\ Range(all) \subseteq seen

\* a page linked to a URL that was a sitemap seed with a fragment, and to
\* itself
C5_Witness_SeedAndLink ==
  \E t \in Joined, s \in DOMAIN tasks :
    /\ s # t
    /\ IsSome(tasks[s].url.fragment)
    /\ IsSome(tasks[t].pf)
    /\ \E i \in 1..Len(Unwrap(tasks[t].pf).links) :
         canonical_key(Unwrap(tasks[t].pf).links[i])
           = canonical_key(tasks[s].url)
    /\ \E u \in Joined :
         /\ IsSome(tasks[u].pf)
         /\ \E i \in 1..Len(Unwrap(tasks[u].pf).links) :
              canonical_key(Unwrap(tasks[u].pf).links[i])
                = canonical_key(tasks[u].url)

\* the admission rule, stated on the URL and the root
Admissible(u) ==
  /\ IsSome(u.host)
  /\ to_ascii_lowercase(Unwrap(u.host))
       \in {Unwrap(root.host), <<"w","w","w",".">> \o Unwrap(root.host)}
  /\ LET pre == IF root.path[Len(root.path)] = "/" THEN root.path
                ELSE root.path \o <<"/">>
     IN \/ pre = <<"/">>
        \/ u.path \o <<"/">> = pre
        \/ SubSeq(u.path, 1, Min(Len(pre), Len(u.path))) = pre
\* C6: every URL that enters the frontier has its lowercased host in
\* allowed_hosts and, unless the prefix is "/", a path equal to the prefix
\* without its trailing slash or starting with the prefix.
C6_FrontierAdmissible ==
  /\ \A i \in 1..Len(queue) : Admissible(queue[i].url)
  /\ \A t \in DOMAIN tasks : Admissible(tasks[t].url)

\* a page with links outside the subtree has been harvested and a link of it
\* is in the frontier
C6_Witness_RejectedLinks ==
  \E t \in Joined :
    /\ IsSome(tasks[t].pf)
    /\ U_sib \in Range(Unwrap(tasks[t].pf).links)
    /\ U_ext \in Range(Unwrap(tasks[t].pf).links)
    /\ queue # << >>

\* C7: the tasks in flight never exceed parallelism, and parallelism is
\* within 1..512.
C7_InFlightBounded ==
  /\ Cardinality({t \in DOMAIN tasks :
                    ~tasks[t].joined /\ tasks[t].st # "aborted"})
       <= opts.parallelism
  /\ opts.parallelism >= 1
  /\ opts.parallelism <= 512

\* the pool is full while the frontier still holds work
C7_Witness_Saturated ==
  /\ pc = "loop"
  /\ joinset_len = opts.parallelism
  /\ queue # << >>

\* the end of a complete crawl
CrawlComplete ==
  /\ ReturnedOk
  /\ queue = << >>
  /\ \A t \in DOMAIN tasks : tasks[t].joined
  /\ \A k \in seen : \E t \in DOMAIN tasks : canonical_key(tasks[t].url) = k
  /\ canonical_key(root) \in seen
  /\ \A t \in DOMAIN tasks :
       IsSome(tasks[t].path) =>
         \E i \in 1..Len(pages) :
           /\ pages[i].url = as_str(Unwrap(tasks[t].pf).final_url)
           /\ pages[i].cache_path = Unwrap(tasks[t].path)
  /\ Unwrap(result).val.pages = pages
CrawlEnded == Returned /\ seen # {}
\* C8: when every fetch completes successfully (no transport error, no
\* panic, no I/O error) the crawl terminates with the frontier empty and no
\* task pending, every URL of the visited set fetched, and a manifest row
\* for every page that was HTML: a crawl that has ended without a failure of
\* the environment has ended so.
C8_CrawlTerminates == (CrawlEnded /\ faults = 0) => CrawlComplete

\* C9: in a crawl the manifest is written exactly once, only when the
\* frontier is empty and no task is pending, and the file of every row then
\* exists with complete content.
C9_ManifestWrittenOnceAfterTasks ==
  /\ manifest_writes <= 1
  /\ manifest_writes = 1 =>
       /\ queue = << >>
       /\ \A t \in DOMAIN tasks : tasks[t].joined
       /\ \A i \in 1..Len(pages) :
            /\ IsSome(FileAt(pages[i].cache_path))
            /\ IsComplete(Unwrap(FileAt(pages[i].cache_path)))
  /\ CrawlEnded => manifest_writes = 1

\* the stored manifest is a hit; one step of the call
StoredHit ==
  /\ refresh = FALSE
  /\ manifest_file # None
  /\ Unwrap(manifest_file).json
  /\ Unwrap(manifest_file).manifest.root_url = as_str(root)
C10_Step ==
  /\ pc = "entry" =>
       IF StoredHit
         THEN /\ pc' = "returned"
              /\ result' = Some(Ok(Unwrap(manifest_file).manifest))
              /\ tasks' = << >>
              /\ manifest_file' = manifest_file
         ELSE /\ pc' = "seed"
              /\ result' = None
  /\ (pc = "loop" /\ pc' = "returned"
        /\ result' # Some(Err("failed to write manifest"))) =>
       /\ IsOk(Unwrap(result'))
       /\ manifest_file' = Some([json |-> TRUE,
                                 manifest |-> Unwrap(result').val])
       /\ Unwrap(result').val.root_url = as_str(root)
\* C10: the call returns the stored manifest, spawning nothing, iff
\* refresh is false and the manifest file exists, parses and has root_url
\* string-equal to root; in every other case it goes on to a full crawl (a
\* read error does not fail the call) that, unless the manifest write itself
\* fails, returns its manifest and has overwritten the manifest file with it.
C10_StoredManifestIffHit == [][C10_Step]_vars

\* the join of a task that completed with Ok(pf)
C13_Step ==
  \A t \in DOMAIN tasks :
    (~tasks[t].joined /\ tasks'[t].joined /\ tasks[t].st = "done"
       /\ IsOk(Unwrap(tasks[t].res))) =>
      LET pf == Unwrap(tasks[t].res).val
      IN IF IsSome(pf.cache_path)
           THEN /\ Len(pages') = Len(pages) + 1
                /\ pages'[Len(pages')].cache_path = Unwrap(pf.cache_path)
                /\ pages'[Len(pages')].url = as_str(pf.final_url)
           ELSE /\ pages' = pages
                /\ queue' = queue
                /\ seen' = seen
\* C13: a completed task contributes a manifest row iff it wrote a Markdown
\* file; a task that wrote none (non-HTML content, failed conversion)
\* contributes no row and none of its links enters the frontier.
C13_RowIffFileNoLinksWithoutFile == [][C13_Step]_vars

\* C11: once a call with refresh off has returned a path for a URL, a later
\* call with the same URL and refresh off returns a path and sends no HTTP
\* request.
C11_SecondCallSendsNoRequest ==
  \A i \in DOMAIN calls : \A j \in DOMAIN calls :
    (i < j /\ calls[i].url = calls[j].url
       /\ ~calls[i].refresh /\ ~calls[j].refresh
       /\ IsOk(calls[i].result)) =>
      (calls[j].requests = 0 /\ IsOk(calls[j].result))

\* C12: a call returns Ok(path) only when the pipeline recorded no error and
\* the Markdown file exists at the path; with an error recorded it returns
\* an error.
C12_OkOnlyWithoutPipelineError ==
  \A i \in DOMAIN calls :
    IsOk(calls[i].result) =>
      (calls[i].error = None /\ calls[i].result.val \in DOMAIN names)

\* two URLs of one scheme, host and port
SameSite(u1, u2) ==
  u1.scheme = u2.scheme /\ u1.host = u2.host /\ u1.port = u2.port

\* C14: page_path is injective per host: two distinct fragment-stripped URLs
\* of the same scheme and host have different page paths.
C14_PagePathInjectivePerHost ==
  (IsSome(val) /\ arg \in PathUrls \X PathUrls) =>
    ((arg[1] # arg[2] /\ SameSite(arg[1], arg[2])
        /\ arg[1].fragment = None /\ arg[2].fragment = None) =>
       Unwrap(val)[1] # Unwrap(val)[2])

\* the file name of a page path ends in __q<8 hex of the query>.md
HasQuerySuffix(r, q) ==
  /\ IsOk(r)
  /\ ends_with(r.val[Len(r.val)], <<"_","_","q">> \o blake3_hex8(q) \o S_dot_md)

\* C15: two URLs that differ only in their query strings have different
\* page paths, each with the suffix __q<8 hex> of its own query, whatever
\* the shape of the path.
C15_QueriesGiveDistinctPaths ==
  (IsSome(val) /\ arg \in PathUrls \X PathUrls) =>
    ((IsSome(arg[1].query) /\ IsSome(arg[2].query)
        /\ arg[1].query # arg[2].query
        /\ WithQuery(arg[1], None) = WithQuery(arg[2], None)) =>
       /\ Unwrap(val)[1] # Unwrap(val)[2]
       /\ HasQuerySuffix(Unwrap(val)[1], Unwrap(arg[1].query))
       /\ HasQuerySuffix(Unwrap(val)[2], Unwrap(arg[2].query)))

\* the pattern heads without a glob character, and the URL string the
\* matcher sees for the input URL
LiteralHeads == {h \in PatternHeads : ~contains_glob(h)}
Applied == IsSome(val) /\ arg \in Patterns \X UrlStrings
Seen(u) == With(Url_parse(u), LAMBDA p : as_str(strip_fragment(p.val)))
NoSlashFrom(s, i) == \A k \in i..Len(s) : s[k] # "/"

\* C16: a single * matches a run of characters other than '/', and the
\* matcher is anchored at both ends: the pattern P/* accepts exactly the
\* URLs P/x where x has no '/', so it rejects P/x/y.
C16_SingleStarStaysInSegment ==
  Applied =>
    \A P \in LiteralHeads :
      (arg[1] = P \o <<"/", "*">> /\ IsOk(Unwrap(val).new)
         /\ IsOk(Url_parse(arg[2]))) =>
        \A u \in {Seen(arg[2])} :
          Unwrap(val).accepts <=>
            (/\ starts_with(u, P \o <<"/">>)
             /\ NoSlashFrom(u, Len(P) + 2))

\* the pattern https://h/a.b/* applied to https://h/a.b/x.html
C16_Witness_AcceptsChild ==
  /\ Applied
  /\ IsOk(Unwrap(val).new)
  /\ arg[1] = <<"h", "t", "t", "p", "s", ":", "/", "/", "h", "/",
               "a", ".", "b", "/", "*">>
  /\ arg[2] = <<"h", "t", "t", "p", "s", ":", "/", "/", "h", "/",
               "a", ".", "b", "/", "x", ".", "h", "t", "m", "l">>
  /\ Unwrap(val).accepts

\* C17: the pattern P/**/* accepts the URL P/x of depth one and the deeper
\* URL P/x/y.
C17_DoubleStarAcceptsEveryDepth ==
  Applied =>
    \A P \in LiteralHeads :
      (arg[1] = P \o <<"/", "*", "*", "/", "*">> /\ IsOk(Unwrap(val).new)
         /\ IsOk(Url_parse(arg[2]))) =>
        \A u \in {Seen(arg[2])} :
          (starts_with(u, P \o <<"/">>) /\ Len(u) > Len(P) + 1) =>
            Unwrap(val).accepts

\* C18: the string of the root of an accepted pattern is a prefix of every
\* URL string its matcher accepts.
C18_RootIsPrefixOfAccepted ==
  (Applied /\ IsOk(Unwrap(val).new) /\ Unwrap(val).accepts) =>
    \A u \in {Seen(arg[2])} :
      starts_with(u, as_str(Unwrap(val).new.val.root))

\* C19: sanitize_markdown is idempotent: a second pass returns the output of
\* the first pass unchanged.
C19_SanitizeIdempotent ==
  (arg \in Texts /\ IsSome(val) /\ Len(Unwrap(val)) = 2) =>
    Unwrap(val)[2] = Unwrap(val)[1]

\* the positions of the fence lines of a sequence of lines
Fences(ls) == {i \in 1..Len(ls) : is_fence(trim(ls[i]))}
NthFence(ls, n) ==
  CHOOSE i \in Fences(ls) : Cardinality({k \in Fences(ls) : k <= i}) = n
\* out holds, between two fence lines, exactly the lines inner
HoldsBlock(out, inner) ==
  \E k \in 1..Len(out) :
    /\ k + Len(inner) + 1 <= Len(out)
    /\ is_fence(trim(out[k]))
    /\ SubSeq(out, k + 1, k + Len(inner)) = inner
    /\ is_fence(trim(out[k + Len(inner) + 1]))

\* C20: the lines between the opening and the closing fence of a code block
\* are in the output exactly as in the input, in the same order and number,
\* whatever they are and wherever the block stands.
C20_FencedLinesPreserved ==
  (arg \in Texts /\ IsSome(val)) =>
    LET ls == lines(arg)
    IN Cardinality(Fences(ls)) >= 2 =>
         HoldsBlock(lines(Unwrap(val)[1]),
                    SubSeq(ls, NthFence(ls, 1) + 1, NthFence(ls, 2) - 1))


\* ---- C21 ----------------------------------------------------------------
\* the bytes of the items before item n of the stream
RECURSIVE BytesBefore(_, _)
BytesBefore(stream, n) ==
  IF n <= 1 THEN << >>
  ELSE BytesBefore(stream, n - 1) \o stream[n - 1].bytes

AllChunks(stream) == \A i \in 1..Len(stream) : is_chunk(stream[i])

\* C21: in fetch_limited the accumulated body never exceeds max_body_bytes:
\* the buffer holds exactly the chunks taken so far and is never longer than
\* the cap; the fetch fails with the body-too-large error exactly when the
\* next chunk would push the total above the cap, and that chunk is not
\* appended; a body of at most (so also of exactly) max_body_bytes is
\* returned whole.
C21_BodyNeverExceedsCap ==
  /\ IsSome(locals) /\ "buf" \in DOMAIN Unwrap(locals) =>
       LET l == Unwrap(locals)
       IN /\ Len(l.buf) <= arg.max_bytes
          /\ l.buf = BytesBefore(arg.stream, l.next)
          /\ val = Some(Err("response body too large")) =>
               /\ is_chunk(arg.stream[l.next])
               /\ Len(l.buf) + Len(arg.stream[l.next].bytes) > arg.max_bytes
          /\ /\ IsSome(val)
             /\ l.next <= Len(arg.stream)
             /\ is_chunk(arg.stream[l.next])
             /\ Len(l.buf) + Len(arg.stream[l.next].bytes) > arg.max_bytes
             => val = Some(Err("response body too large"))
          /\ IsSome(val) /\ IsOk(Unwrap(val)) =>
               /\ Unwrap(val).val.body
                    = BytesBefore(arg.stream, Len(arg.stream) + 1)
               /\ Len(Unwrap(val).val.body) <= arg.max_bytes
          /\ /\ IsSome(val)
             /\ AllChunks(arg.stream)
             /\ Len(BytesBefore(arg.stream, Len(arg.stream) + 1))
                  <= arg.max_bytes
             => IsOk(Unwrap(val))

\* a body of exactly max_bytes that came in two chunks was returned
C21_Witness_ExactCapReturned ==
  /\ IsSome(val)
  /\ IsOk(Unwrap(val))
  /\ IsSome(locals)
  /\ "body" \in DOMAIN Unwrap(val).val
  /\ Len(Unwrap(val).val.body) = arg.max_bytes
  /\ arg.max_bytes > 0
  /\ Len(arg.stream) = 2
  /\ \A i \in 1..2 : Len(arg.stream[i].bytes) > 0


\* ---- C22 ----------------------------------------------------------------
\* the frontier: what waits in the queue and what was spawned
FrontierEntries(q, tk) ==
  {[url |-> q[i].url, depth |-> q[i].depth] : i \in DOMAIN q}
    \cup {[url |-> tk[t].url, depth |-> tk[t].depth] : t \in DOMAIN tk}

SeedUrls == {root} \cup Range(SitemapUrls)

\* C22: with max_depth = N no frontier entry ever has a depth above N; the
\* entries of depth 0 are the root and sitemap seeds; the entries a join
\* adds have the depth of the joined page plus one, and a page at depth N
\* adds none; with max_depth = 0 nothing but the root and the seeds is
\* fetched.
C22_Step ==
  IsSome(opts.max_depth) =>
    LET N == Unwrap(opts.max_depth)
        before == FrontierEntries(queue, tasks)
        after == FrontierEntries(queue', tasks')
        joined == {t \in DOMAIN tasks : tasks'[t].joined /\ ~tasks[t].joined}
    IN /\ \A e \in after : e.depth <= N
       /\ \A e \in after : e.depth = 0 => e.url \in SeedUrls
       /\ \A e \in after \ before :
            \/ pc = "seed" /\ e.depth = 0
            \/ \E t \in joined :
                 /\ e.depth = tasks[t].depth + 1
                 /\ tasks[t].depth < N
       /\ N = 0 => \A e \in after : e.url \in SeedUrls

C22_DepthNeverAboveMax == [][C22_Step]_vars

\* max_depth = 1: a page at depth 1 with an admissible link (/d/x, linking
\* to /d/y) was joined and nothing entered the frontier
C22_Witness_LinksAtMaxDiscarded ==
  /\ opts.max_depth = Some(1)
  /\ \E t \in DOMAIN tasks :
       /\ tasks[t].joined
       /\ tasks[t].depth = 1
       /\ IsSome(tasks[t].res)
       /\ IsOk(Unwrap(tasks[t].res))
       /\ \E l \in Range(Unwrap(tasks[t].res).val.links) :
            /\ is_allowed_child(l, allowed_hosts, prefix)
            /\ canonical_key(l) \notin seen
  /\ \E t \in DOMAIN tasks : tasks[t].depth = 1 /\ tasks[t].url = U_x


\* ---- C23 ----------------------------------------------------------------
\* the URLs of the chain a request was sent to, the first one first
Requested == Append(Unwrap(locals).previous, Unwrap(locals).url)

\* C23: the host-constrained client never sends a request to a redirect
\* target whose lowercased host is outside allowed_hosts (or that has no
\* host), it follows at most 10 redirects of a chain, and a redirect it does
\* not follow is returned as the response of the URL that sent it.
C23_RedirectsStayOnAllowedHosts ==
  IsSome(locals) /\ "previous" \in DOMAIN Unwrap(locals) =>
    /\ \A i \in 2..Len(Requested) :
         /\ IsSome(Requested[i].host)
         /\ to_ascii_lowercase(Unwrap(Requested[i].host))
              \in arg.allowed_hosts
    /\ Len(Requested) - 1 <= 10
    /\ IsSome(val) =>
         Unwrap(val).val.final_url = Requested[Len(Requested)]

\* a redirect to the www variant of the host was followed, and the next
\* redirect, to another host, was not: the 302 is the result
C23_Witness_StoppedAtForeignHost ==
  /\ IsSome(locals)
  /\ "previous" \in DOMAIN Unwrap(locals)
  /\ arg.allowed_hosts = Range(host_variants(H_h))
  /\ Requested = <<U_dir, U_www>>
  /\ val = Some(Ok([final_url |-> U_www, status |-> 302]))


\* ---- C24 ----------------------------------------------------------------
SitemapFailed == IsSome(sitemap) /\ ~IsOk(Unwrap(sitemap))

\* C24: no sitemap failure fails the crawl: when discovery failed, the
\* crawl goes on with the root as its only seed and the call returns a
\* manifest.
C24_SitemapFailureNeverFailsCrawl ==
  SitemapFailed =>
    /\ pc \in {"loop", "returned"}
    /\ \A e \in FrontierEntries(queue, tasks) : e.depth = 0 => e.url = root
    /\ Returned => ReturnedOk /\ Unwrap(result).val.root_url = as_str(root)


\* ---- C25 ----------------------------------------------------------------
\* what the server sends for a sitemap URL, parsed on its own
ParsedAt(url) ==
  LET a == answer(arg.site, arg.base, url)
  IN IF a.t = "err" \/ ~is_success(a.status) THEN Err("not served")
     ELSE IF ~IsOk(maybe_gunzip(a.body)) THEN maybe_gunzip(a.body)
     ELSE parse_sitemap_xml(maybe_gunzip(a.body).val)

\* C25: a malformed document fails only its own sitemap: discovery still
\* returns Ok, with the URLs of every well-formed sitemap it fetched, and
\* leaves no sitemap in the queue unfetched.
C25_MalformedFailsOnlyOneSitemap ==
  IsSome(val) /\ IsSome(locals) /\ "seen_sitemaps" \in DOMAIN Unwrap(locals) =>
    /\ IsOk(Unwrap(val))
    /\ Unwrap(locals).queue = << >>
    /\ \A i \in DOMAIN Unwrap(locals).fetched :
         LET parsed == ParsedAt(Unwrap(locals).fetched[i])
         IN IsOk(parsed) =>
              Range(parsed.val.urls) \subseteq Range(Unwrap(val).val)


\* ---- C26 ----------------------------------------------------------------
KindOf(r) == IF IsOk(r) THEN r.val.kind ELSE "Err"

\* the kind the rules of the claim give, read top-down
RuleKind(token, force_crawl, force_page) ==
  IF ~force_page /\ \E i \in 1..Len(token) : token[i] \in {"*", "?", "["}
    THEN IF IsOk(UrlPattern_new(token)) THEN "Pattern" ELSE "Err"
  ELSE IF ~IsOk(Url_parse(token)) THEN "Err"
  ELSE IF force_crawl /\ ~force_page THEN "CrawlRoot"
  ELSE IF ~force_page /\ token[Len(token)] = "/" THEN "CrawlRoot"
  ELSE "Page"

\* C26: classifying a token applies the rules top-down (glob character and
\* not force_page: Pattern; not an absolute URL: error; force_crawl and not
\* force_page: CrawlRoot; not force_page and trailing slash: CrawlRoot;
\* otherwise Page), in parse_source and in parse_source_token alike; so
\* force_page never yields Pattern or CrawlRoot.
C26_ClassifyTopDown ==
  IsSome(val) /\ "app" \in DOMAIN Unwrap(val) =>
    \A r \in {Unwrap(val).app, Unwrap(val).lib} :
      IsSome(r) =>
        /\ KindOf(Unwrap(r))
             = RuleKind(arg.token, arg.force_crawl, arg.force_page)
        /\ arg.force_page => KindOf(Unwrap(r)) \in {"Page", "Err"}


\* ---- C27 ----------------------------------------------------------------
\* the index of the first row of the manifest with cache path p
FirstRow(rows, p) ==
  CHOOSE i \in DOMAIN rows :
    rows[i].cache_path = p /\ \A k \in 1..(i - 1) : rows[k].cache_path # p

\* C27: for a pattern that is not subtree-wide the targets are exactly the
\* cache paths of the manifest pages whose URL the matcher accepts, each
\* once, in manifest order; for a subtree-wide pattern the only target is
\* subtree_dir(root).
C27_PatternTargetsAreAcceptedPages ==
  IsSome(val) /\ "targets" \in DOMAIN Unwrap(val) =>
    LET pat == Unwrap(val).pat
        t == Unwrap(val).targets
        accepted == {i \in DOMAIN arg.pages :
                       matches_url_string(pat, arg.pages[i].url)}
    IN /\ IsOk(t)
       /\ IF is_subtree_pattern(pat)
            THEN t.val = <<subtree_dir(pat.root).val>>
            ELSE /\ Range(t.val) = {arg.pages[i].cache_path : i \in accepted}
                 /\ \A i, j \in DOMAIN t.val : i # j => t.val[i] # t.val[j]
                 /\ \A i, j \in DOMAIN t.val :
                      i < j => FirstRow(arg.pages, t.val[i])
                                 < FirstRow(arg.pages, t.val[j])

\* https://h/a/* over the manifest /a/x, /a/x/y, /a/z gave /a/x and /a/z
C27_Witness_DirectChildrenOnly ==
  /\ IsSome(val)
  /\ "targets" \in DOMAIN Unwrap(val)
  /\ arg.pattern = <<"h","t","t","p","s",":","/","/","h","/","a","/","*">>
  /\ Len(arg.pages) = 3
  /\ arg.pages[1].url = <<"h","t","t","p","s",":","/","/","h","/","a","/","x">>
  /\ arg.pages[2].url
       = <<"h","t","t","p","s",":","/","/","h","/","a","/","x","/","y">>
  /\ arg.pages[3].url = <<"h","t","t","p","s",":","/","/","h","/","a","/","z">>
  /\ Unwrap(val).targets
       = Ok(<<arg.pages[1].cache_path, arg.pages[3].cache_path>>)


\* ---- C28 ----------------------------------------------------------------
\* s without a trailing .html, .htm or .xhtml, in any letter case
WithoutHtmlExt(s) ==
  LET l == to_ascii_lowercase(s)
  IN IF ends_with(l, <<".","x","h","t","m","l">>)
       THEN SubSeq(s, 1, Len(s) - 6)
     ELSE IF ends_with(l, <<".","h","t","m","l">>)
       THEN SubSeq(s, 1, Len(s) - 5)
     ELSE IF ends_with(l, <<".","h","t","m">>) THEN SubSeq(s, 1, Len(s) - 4)
     ELSE s

\* the mapping as the claim states it
StatedPath(url) ==
  LET host_dir == to_ascii_lowercase(Unwrap(url.host))
                    \o (IF IsSome(url.port)
                             /\ url.port # DefaultPort(url.scheme)
                          THEN <<"_","p","o","r","t">> \o Unwrap(url.port)
                          ELSE << >>)
      site == <<S_sites, url.scheme, host_dir>>
      segs == filter_non_empty(split(url.path, "/"))
      dirs(n) == [i \in 1..n |-> sanitize_component(segs[i])]
  IN IF url.path \in {<< >>, <<"/">>} THEN Append(site, S_index_md)
     ELSE IF url.path[Len(url.path)] = "/"
       THEN Append(subtree_dir(url).val, S_index_md)
     ELSE
       LET stem == WithoutHtmlExt(segs[Len(segs)])
           base == IF stem = << >> THEN <<"i","n","d","e","x">> ELSE stem
       IN Append(site \o dirs(Len(segs) - 1),
                 sanitize_component(base)
                   \o (IF IsSome(url.query)
                         THEN <<"_","_","q">> \o blake3_hex8(Unwrap(url.query))
                         ELSE << >>)
                   \o S_dot_md)

\* C28: page_path(url) is the stated mapping: index.md in the site directory
\* for an empty or "/" path, index.md in the subtree directory for a path
\* ending in "/", otherwise the sanitized directories and the last segment
\* without a trailing .html, .htm or .xhtml ("index" when nothing is left),
\* with __q<hex8> iff there is a query, then .md; the host directory has
\* _port<n> iff the port is explicit and not the default.
C28_PagePathFollowsMapping ==
  IsSome(val) /\ arg \in MappingUrls => Unwrap(val) = Ok(StatedPath(arg))

C28_Witness_PortQueryAndExtension ==
  /\ IsSome(val)
  /\ arg \in MappingUrls
  /\ arg.path = <<"/","d","/","x",".","H","T","M">>
  /\ IsSome(arg.port)
  /\ IsSome(arg.query)
  /\ IsOk(Unwrap(val))
  /\ LET p == Unwrap(val).val
     IN /\ Len(p) = 5
        /\ p[3] = <<"h","_","p","o","r","t","8","0","8","0">>
        /\ p[4] = <<"d">>
        /\ p[5] = <<"x","_","_","q">> \o blake3_hex8(Q_1) \o S_dot_md

\* ---- C29 ----------------------------------------------------------------
\* the final URL and status that the record of a task shows, if any
Observed(tk) ==
  IF IsSome(tk.pf)
    THEN Some(<<Unwrap(tk.pf).final_url, Unwrap(tk.pf).status>>)
  ELSE IF IsSome(tk.res) /\ IsOk(Unwrap(tk.res))
    THEN Some(<<Unwrap(tk.res).val.final_url, Unwrap(tk.res).val.status>>)
  ELSE None

\* the answers of the server that task record tk may have received
AnswersOf(tk) ==
  {resp \in Serve(tk.url) :
     Observed(tk) \in {None, Some(<<resp.final_url, resp.status>>)}}

\* the tasks whose response was an HTML page with an error status and was
\* converted
ErrorPages ==
  {t \in DOMAIN tasks : /\ IsSome(tasks[t].pf)
                        /\ is_error_status(Unwrap(tasks[t].pf).status)}

\* what holds of the error pages in every state
ErrorPagesKept ==
  \A t \in ErrorPages :
    LET pf == Unwrap(tasks[t].pf)
        ok == tasks[t].st = "done" /\ IsOk(Unwrap(tasks[t].res))
    IN /\ IsSome(pf.cache_path)
       /\ IsSome(pf.error)
       /\ Unwrap(pf.error) # ""
       /\ ok => /\ Unwrap(tasks[t].res).val = pf
                /\ IsSome(FileAt(Unwrap(pf.cache_path)))
       /\ ok /\ tasks[t].joined =>
            \E i \in 1..Len(pages) :
              /\ pages[i].cache_path = Unwrap(pf.cache_path)
              /\ pages[i].status = pf.status
              /\ pages[i].error = pf.error

C29_Step ==
  /\ \A t \in DOMAIN tasks :
       /\ tasks[t].st = "fetch"
       /\ tasks'[t].st \in {"write", "done"}
       /\ faults' = faults
       => \A resp \in AnswersOf(tasks'[t]) :
            /\ resp.html
            /\ is_error_status(resp.status)
            /\ IsOk(page_path_of[resp.final_url])
            => /\ tasks'[t].st = "write"
               /\ t \in ErrorPages'
               /\ Unwrap(tasks'[t].pf).status = resp.status
               /\ tmp_path(Unwrap(tasks'[t].path)) \in DOMAIN names'
  /\ ErrorPagesKept'

\* C29: a page task that receives an HTML body with a 4xx/5xx status (and
\* converts it) goes on to write the Markdown file; its result keeps the
\* status, names the file and carries a non-empty error string, the file
\* exists once the task has returned Ok, and the manifest has a row with that
\* status and error once the task is joined.
C29_ErrorStatusKeepsFileAndRow == [][C29_Step]_vars

C29_Witness_Row404 ==
  \E t \in ErrorPages :
    /\ tasks[t].joined
    /\ Unwrap(tasks[t].pf).status = 404
    /\ \E i \in 1..Len(pages) :
         /\ pages[i].status = 404
         /\ pages[i].error = Some("HTTP status")
         /\ IsSome(FileAt(pages[i].cache_path))

\* ---- C30 ----------------------------------------------------------------
\* the aliases and the names they stand for
LangAliases ==
  {<<<<"t","s">>, S_typescript>>, <<<<"j","s">>, S_javascript>>,
   <<<<"p","y">>, S_python>>, <<<<"s","h">>, S_bash>>,
   <<<<"s","h","e","l","l">>, S_bash>>}

\* the tag as stated: the hint (without surrounding blanks) in lower case,
\* an alias replaced by its name; without a hint the default language
StatedTag(lang, default_language) ==
  LET hint == IF IsSome(lang) THEN to_ascii_lowercase(trim(Unwrap(lang)))
              ELSE << >>
      named == {a[2] : a \in {b \in LangAliases : b[1] = hint}}
  IN IF named # {} THEN CHOOSE n \in named : TRUE
     ELSE IF hint # << >> THEN hint
     ELSE default_language

\* C30: whatever the requested code style, the output of visit_code_block
\* is a fenced block: its first line is a fence of backticks or tildes
\* followed by the stated tag (the lowercased hint with ts, js, py, sh and
\* shell replaced, else the default language, else nothing), and its last
\* line is the same fence alone.
C30_AlwaysFencedWithNormalizedTag ==
  IsSome(val) /\ "code_block_style" \in DOMAIN arg =>
    LET ls == lines(Unwrap(val))
    IN /\ Len(ls) >= 2
       /\ \E fence \in {S_fence_tick, S_fence_tilde} :
            /\ ls[1] = fence \o StatedTag(arg.lang, arg.default_language)
            /\ ls[Len(ls)] = fence
       /\ Unwrap(val)[Len(Unwrap(val))] = "\n"

C30_Witness_IndentedStyleAlias ==
  /\ IsSome(val)
  /\ "code_block_style" \in DOMAIN arg
  /\ arg.code_block_style = "Indented"
  /\ arg.lang = Some(<<"S","h","e","l","l">>)
  /\ arg.code = <<"\n","a","\n">>
  /\ Unwrap(val) = S_fence_tick \o S_bash \o NL \o <<"a">> \o NL
                     \o S_fence_tick \o NL

\* ---- C31 ----------------------------------------------------------------
\* the lines of ls from the first one after position k that is `---`, or
\* no line when there is none
AfterClosing(ls, k) ==
  LET closing == {j \in (k + 1)..Len(ls) : trim(ls[j]) = S_rule_dash}
  IN IF closing = {} THEN << >>
     ELSE SubSeq(ls, (CHOOSE j \in closing : \A m \in closing : j <= m) + 1,
                 Len(ls))

\* the lines left once the stated front matter is dropped
WithoutFrontmatter(ls) ==
  LET filled == {k \in 1..Len(ls) : trim(ls[k]) # << >>}
  IN IF filled = {} THEN ls
     ELSE LET k == CHOOSE j \in filled : \A m \in filled : j <= m
          IN IF trim(ls[k]) = S_rule_dash THEN AfterClosing(ls, k) ELSE ls

\* the sanitizer past its front matter test
SanitizeChecked == [SanitizeStart EXCEPT !.frontmatter_checked = TRUE]

\* C31: when the first non-empty line is `---`, that line and the lines
\* through the next `---` are dropped and the lines after it are processed
\* as usual; otherwise no front matter is dropped.
C31_FrontmatterAfterBlankLines ==
  IsSome(val) /\ arg \in Texts =>
    Unwrap(val)[1]
      = sanitize_lines(WithoutFrontmatter(lines(arg)), 1, SanitizeChecked).out

\* ---- C32 ----------------------------------------------------------------
\* the variables of sanitize_markdown after the first k lines of ls
StateAfter(ls, k) == sanitize_lines(SubSeq(ls, 1, k), 1, SanitizeStart)

is_heading(raw_line) == starts_with(trim(raw_line), <<"#">>)
is_footer_heading(raw_line) == footer_heading_regex(trim(raw_line))

\* what the claim says of line k of ls, read in state st, giving state st2
FooterRule(st, raw_line, st2) ==
  /\ ~st.in_code /\ ~st.skipping_frontmatter /\ ~st.in_svg
       /\ is_footer_heading(raw_line)
       => st2.in_footer /\ st2.out = st.out
  /\ st.in_footer /\ ~is_heading(raw_line)
       => st2.in_footer /\ st2.out = st.out
  /\ st.in_footer /\ is_heading(raw_line) /\ ~is_footer_heading(raw_line)
       => ~st2.in_footer /\ st2.out = st.out \o trim_end(raw_line) \o NL

\* C32: outside a code fence a footer heading starts footer mode; in footer
\* mode every line is dropped until the next heading, which ends the mode
\* and is emitted unless it is a footer heading again.
C32_FooterModeDropsEveryLine ==
  IsSome(val) /\ arg \in Texts =>
    \A k \in 1..Len(lines(arg)) :
      FooterRule(StateAfter(lines(arg), k - 1), lines(arg)[k],
                 StateAfter(lines(arg), k))

\* ---- C33 ----------------------------------------------------------------
\* the line written by a step from output a to output b, without its line
\* feed
Emitted(a, b) == SubSeq(b, Len(a) + 1, Len(b) - 1)

is_link_only(raw_line) == link_only_line_regex(trim(raw_line))

\* what the claim says of a line read outside code in state st
LinkRule(st, raw_line, st2) ==
  ~st.in_code /\ ~is_fence(trim(raw_line)) =>
    /\ st2.out # st.out => ~is_link_only(Emitted(st.out, st2.out))
    /\ ~st.saw_heading /\ is_link_only(raw_line) => st2.out = st.out
    /\ st.in_trailing_links
         /\ (is_link_only(raw_line) \/ trim(raw_line) = << >>)
         => st2.out = st.out

\* C33: outside code fences no line made only of Markdown links is
\* emitted: before the first heading such a line is dropped, and in a
\* trailing-links block the link-only lines and the blank lines between
\* them are dropped.
C33_NoLinkOnlyLineEmitted ==
  IsSome(val) /\ arg \in Texts =>
    \A k \in 1..Len(lines(arg)) :
      LinkRule(StateAfter(lines(arg), k - 1), lines(arg)[k],
               StateAfter(lines(arg), k))

\* ---- C34 ----------------------------------------------------------------
\* C34: the output has no two consecutive blank lines, no line with
\* trailing whitespace, and ends with a line feed.
C34_OutputBlankCollapsedTrimmedTerminated ==
  IsSome(val) /\ arg \in Texts =>
    LET out == Unwrap(val)[1]
        ls == lines(out)
    IN /\ \A k \in 1..(Len(ls) - 1) : ~(ls[k] = << >> /\ ls[k + 1] = << >>)
       /\ \A k \in 1..Len(ls) : trim_end(ls[k]) = ls[k]
       /\ out # << >> /\ out[Len(out)] = "\n"

\* ---- C35 ----------------------------------------------------------------
\* the candidates that answer with a success status
SuccessCandidates ==
  {i \in 1..Len(SitemapCandidates) :
     LET a == answer(arg.site, arg.base,
                     origin_join(arg.base, SitemapCandidates[i]))
     IN a.t = "resp" /\ is_success(a.status)}

FirstSuccess == CHOOSE i \in SuccessCandidates :
                  \A j \in SuccessCandidates : i <= j

\* the sitemap URLs of the site: the candidates and the children
SitemapUniverse ==
  {origin_join(arg.base, SitemapCandidates[i]) :
     i \in 1..Len(SitemapCandidates)} \cup {SM_a, SM_b, SM_ext}

ProbedOnce ==
  LET l == Unwrap(locals)
  IN /\ l.cand <= Len(SitemapCandidates) + 1
     /\ \A i \in 1..(l.cand - 2) : i \notin SuccessCandidates
     /\ l.stage = "loop" =>
          /\ IF SuccessCandidates = {}
               THEN l.cand = Len(SitemapCandidates) + 1 /\ l.fetched = << >>
               ELSE l.cand = FirstSuccess + 1
          /\ \A i \in 1..Len(SitemapCandidates) :
               origin_join(arg.base, SitemapCandidates[i]) \in Range(l.fetched)
                 => SuccessCandidates # {} /\ i = FirstSuccess

FetchedOnce ==
  LET l == Unwrap(locals)
  IN /\ \A i, j \in 1..Len(l.fetched) :
          as_str(l.fetched[i]) = as_str(l.fetched[j]) => i = j
     /\ Range(l.fetched) \subseteq SitemapUniverse

C35_Inv == IsSome(locals) /\ "site" \in DOMAIN arg => ProbedOnce /\ FetchedOnce

\* C35: the candidates are probed in order up to the first that answers
\* with a success status, which alone is traversed; no sitemap URL is
\* fetched twice in the traversal, and the discovery returns, also when
\* the indexes name each other.
C35_FirstCandidateOnlyAndTerminates == []C35_Inv /\ <>IsSome(val)

C35_Witness_CyclicIndexReturned ==
  /\ IsSome(locals)
  /\ "site" \in DOMAIN arg
  /\ arg.site.c1 = Status(500)
  /\ arg.site.c2 = Served(Body(FALSE, FALSE, Doc_index))
  /\ arg.site.a = Served(Body(FALSE, FALSE, Doc_index))
  /\ arg.site.b = Served(Body(FALSE, FALSE, Doc_x))
  /\ Unwrap(locals).fetched
       = <<origin_join(arg.base, SitemapCandidates[2]), SM_a, SM_b>>
  /\ val = Some(Ok(<<U_x>>))

\* ---- C36 ----------------------------------------------------------------
\* C36: the Markdown file of every page of a crawl of root R lies under
\* subtree_dir(R), also for a page on the www variant of the host, a page
\* linked with the other scheme or a port, and a page reached through a
\* redirect within the host.
C36_FilesUnderSubtreeDir ==
  IsSome(val) /\ "link" \in DOMAIN arg /\ IsSome(Unwrap(val).cache_path) =>
    starts_with(Unwrap(Unwrap(val).cache_path), subtree_dir(arg.root).val)

\* ---- C37 ----------------------------------------------------------------
\* the URLs discover_sitemap_urls has requested: the candidates probed and
\* the sitemaps fetched in the traversal
SitemapRequests ==
  LET l == Unwrap(locals)
  IN {origin_join(arg.base, SitemapCandidates[i]) : i \in 1..(l.cand - 1)}
       \cup Range(l.fetched)

\* C37: every request of a subtree crawl goes to a host in allowed_hosts,
\* the two www variants of the root's host; here the requests of the
\* sitemap discovery, made through the client built for these hosts.
C37_RequestsStayOnAllowedHosts ==
  IsSome(locals) /\ "site" \in DOMAIN arg =>
    \A u \in SitemapRequests :
      /\ IsSome(u.host)
      /\ to_ascii_lowercase(Unwrap(u.host))
           \in Range(host_variants(Unwrap(arg.base.host)))

\* ---- C38 ----------------------------------------------------------------
\* C38: whatever parallelism the call was given, an iteration of the crawl
\* loop spawns a task or has a pending task to wait for: the loop is never
\* at its top with a non-empty frontier, no pending task and nothing to
\* spawn.
C38_LoopAlwaysProgresses ==
  pc = "loop" /\ queue # << >> /\ joinset_len = 0 => can_spawn

\* ---- C39 ----------------------------------------------------------------
\* a step that is not the return of Ok leaves the manifest file as it was
C39_Step ==
  ~(pc' = "returned" /\ IsSome(result') /\ IsOk(Unwrap(result')))
    => manifest_file' = manifest_file

\* C39: when ensure_subtree_cached returns an error the file at
\* manifest_path(root) is what it was before the call; the file changes
\* only in the step that returns Ok.
C39_ErrorLeavesManifestUntouched == [][C39_Step]_vars

\* ---- C40 ----------------------------------------------------------------
\* the rows of the manifest whose file is a target or lies in a target
\* directory
HandedOver(rows, targets) ==
  {i \in DOMAIN rows :
     \E k \in DOMAIN targets : starts_with(rows[i].cache_path, targets[k])}

\* C40: for a Pattern source every cached page that the targets hand to
\* the host command, as a listed file or inside a listed directory, has a
\* URL the matcher of the pattern accepts, also for a subtree-wide pattern
\* with a glob before its final /**.
C40_TargetsHoldOnlyMatchingPages ==
  IsSome(val) /\ "targets" \in DOMAIN Unwrap(val)
    /\ IsOk(Unwrap(val).targets) =>
    \A i \in HandedOver(arg.pages, Unwrap(val).targets.val) :
      matches_url_string(Unwrap(val).pat, arg.pages[i].url)

====
